---- MODULE Spec2Model ----
(***************************************************************************)
(* Consumption and cost-allocation engine of the electric meter ledger.    *)
(*                                                                         *)
(* The store (properties, meters, meter readings, cost formulas) is the    *)
(* state; every service function is an action or an operator translated    *)
(* from src/app/services.  Numbers:                                        *)
(*   - a reading value is an integer number of the smallest reading unit;  *)
(*   - a point in time is a natural number;                                *)
(*   - money is counted in cents, so quantize(Decimal("0.01")) rounds a    *)
(*     fraction of cents to an integer, ties to even (the decimal          *)
(*     context's ROUND_HALF_EVEN);                                         *)
(*   - quotients of Decimals are kept as exact fractions [num, den]; the   *)
(*     decimal context rounds them at 28 significant digits, a relative    *)
(*     error below 10^-27 that the model does not represent.               *)
(* An optional value (Python's None) is a sequence: << >> or <<v>>.        *)
(***************************************************************************)
EXTENDS Integers, Sequences, FiniteSets, TLC

VARIABLES properties, meters, readings, formulas, resp

vars == <<properties, meters, readings, formulas, resp>>

(***************************************************************************)
(* Bounds of the model.                                                    *)
(***************************************************************************)
MaxProperties == 1
MaxSubmeters == 2
MaxCost == 1
MaxCoeff == 1
MaxFormulas == 2
MaxListLen == 3
MaxUnmeteredValue == 2

\* single-meter consumption (SpecMeter)
MeterMaxReadings == 3
MeterMaxTime == 2
MeterMaxValue == 2

\* proportional cost distribution (SpecCosts)
ShareMaxReadings == 3

ShareMaxTime == 1

ShareMaxValue == 1

CostMaxBulks == 2

BillMaxBulks == 1

BillMaxTime == 1

BillMaxValue == 1

BillMaxSubmeters == 1

PreMaxBulks == 2

PreMaxTime == 1

PreMaxValue == 1

FormMaxBulks == 1

FormMaxTime == 1

FormMaxValue == 1
CostMaxTime == 1
CostMaxValue == 2

\* property consumption (SpecProperty)
PropMaxReadings == 3
PropMaxTime == 1
PropMaxValue == 1

(***************************************************************************)
(* Optional values.                                                        *)
(***************************************************************************)
None == << >>

Some(v) == <<v>>

IsNone(o) == o = << >>

(***************************************************************************)
(* Decimal arithmetic: fractions with a positive denominator.              *)
(***************************************************************************)
Abs(n) == IF n < 0 THEN -n ELSE n

RECURSIVE GCD(_, _)
GCD(a, b) == IF b = 0 THEN a ELSE GCD(b, a % b)

\* A denominator of 0 marks the ZeroDivisionError (decimal.DivisionByZero)
\* that a division by zero raises; it propagates through the arithmetic.
DivisionByZero == [num |-> 0, den |-> 0]

Raised(x) == x.den = 0

Norm(n, d) ==
    IF d = 0 THEN DivisionByZero
    ELSE LET g == GCD(Abs(n), d)
         IN  [num |-> n \div g, den |-> d \div g]

Dec(n) == [num |-> n, den |-> 1]

DecAdd(x, y) == Norm(x.num * y.den + y.num * x.den, x.den * y.den)

DecMul(x, y) == Norm(x.num * y.num, x.den * y.den)

DecDiv(x, y) ==
    IF y.num > 0 THEN Norm(x.num * y.den, x.den * y.num)
    ELSE IF y.num < 0 THEN Norm(-(x.num * y.den), x.den * (-y.num))
    ELSE DivisionByZero

\* x.quantize(Decimal("0.01")) for x in cents: the nearest integer, ties to
\* the even one
Quantize(x) ==
    LET q == x.num \div x.den
        r == x.num - q * x.den
    IN  IF 2 * r < x.den THEN q
        ELSE IF 2 * r > x.den THEN q + 1
        ELSE IF q % 2 = 0 THEN q ELSE q + 1

DecEq(x, y) == x.num * y.den = y.num * x.den

DecLt(x, y) == x.num * y.den < y.num * x.den

DecLe(x, y) == x.num * y.den <= y.num * x.den

(***************************************************************************)
(* The decimal context.  Every Decimal operation rounds its exact result   *)
(* to DecimalPrec significant digits, ties to the even digit.  A Decimal   *)
(* is kept as num/den + ulp * 10^-DecimalPrec, with ulp a fraction: the    *)
(* rational it stands for and the rounding error it has accumulated, which *)
(* is too small to be written out but decides the ties of a later          *)
(* rounding.                                                               *)
(***************************************************************************)
DecimalPrec == 28

RECURSIVE Pow10(_)
Pow10(n) == IF n = 0 THEN 1 ELSE 10 * Pow10(n - 1)

Decimal(n) == [num |-> n, den |-> 1, ulp |-> Dec(0)]

Rational(x) == [num |-> x.num, den |-> x.den]

Neg(x) == [num |-> -x.num, den |-> x.den]

Sign(n) == IF n > 0 THEN 1 ELSE IF n < 0 THEN -1 ELSE 0

Scale10(x, k) ==
    IF k >= 0 THEN Norm(x.num * Pow10(k), x.den) ELSE Norm(x.num, x.den * Pow10(-k))

\* 10^n modulo m
RECURSIVE PowMod10(_, _)
PowMod10(n, m) == IF n = 0 THEN 1 % m ELSE (10 * PowMod10(n - 1, m)) % m

\* Decimal.adjusted(): the exponent of the most significant digit of a > 0
RECURSIVE Adjusted(_)
Adjusted(a) ==
    IF a.num >= 10 * a.den THEN Adjusted(Norm(a.num, 10 * a.den)) + 1
    ELSE IF a.num < a.den THEN Adjusted(Norm(10 * a.num, a.den)) - 1
    ELSE 0

\* The rounding of a + b * 10^-DecimalPrec + c * 10^-(2 * DecimalPrec), a > 0,
\* to DecimalPrec significant digits; of c only the sign matters.

\* the exponent of the most significant digit of the sum, given that of a
RoundingExponent(a, b, c, e0) ==
    IF a = Scale10(Dec(1), e0) /\ (b.num < 0 \/ (b.num = 0 /\ c < 0)) THEN e0 - 1 ELSE e0

\* the part of a below its n-th decimal place, in units of that place
BelowPlace(a, n) == Norm(((a.num % a.den) * PowMod10(n, a.den)) % a.den, a.den)

\* the parity of the digit of a at its n-th decimal place
ParityAtPlace(a, n) ==
    (((a.num % (2 * a.den)) * PowMod10(n, 2 * a.den)) % (2 * a.den)) \div a.den

Floor(t) == t.num \div t.den

\* the integer nearest to t + c * 10^-DecimalPrec; at a tie the one that makes
\* the kept digit even
Nearest(t, c, parity) ==
    IF 2 * (t.num - Floor(t) * t.den) < t.den THEN Floor(t)
    ELSE IF 2 * (t.num - Floor(t) * t.den) > t.den THEN Floor(t) + 1
    ELSE IF c > 0 THEN Floor(t) + 1
    ELSE IF c < 0 THEN Floor(t)
    ELSE IF (parity + Floor(t)) % 2 = 0 THEN Floor(t) ELSE Floor(t) + 1

\* a with the part f below the last kept digit replaced by `kept` units
RoundedTo(a, e, f, kept) ==
    [num |-> a.num, den |-> a.den, ulp |-> Scale10(DecAdd(Dec(kept), Neg(f)), e + 1)]

RoundBelow(a, b, c, e, f) ==
    RoundedTo(a, e, f,
              Nearest(DecAdd(f, Scale10(b, -(e + 1))), c,
                      ParityAtPlace(a, DecimalPrec - 1 - e)))

RoundAtExponent(a, b, c, e) == RoundBelow(a, b, c, e, BelowPlace(a, DecimalPrec - 1 - e))

RoundPositive(a, b, c) == RoundAtExponent(a, b, c, RoundingExponent(a, b, c, Adjusted(a)))

NegDecimal(r) == [num |-> -r.num, den |-> r.den, ulp |-> Neg(r.ulp)]

\* the context's rounding (ROUND_HALF_EVEN at DecimalPrec digits)
Context(a, b, c) ==
    IF Raised(a) \/ Raised(b) THEN [num |-> 0, den |-> 0, ulp |-> Dec(0)]
    ELSE IF a.num = 0 THEN [num |-> 0, den |-> 1, ulp |-> b]
    ELSE IF a.num > 0 THEN RoundPositive(a, b, c)
    ELSE NegDecimal(RoundPositive(Neg(a), Neg(b), -c))

DecimalAdd(x, y) ==
    Context(DecAdd(Rational(x), Rational(y)), DecAdd(x.ulp, y.ulp), 0)

DecimalMul(x, y) ==
    Context(DecMul(Rational(x), Rational(y)),
            DecAdd(DecMul(Rational(x), y.ulp), DecMul(Rational(y), x.ulp)),
            Sign(x.ulp.num) * Sign(y.ulp.num))

\* x / y = a1/a2 + ((b1 a2 - a1 b2) / a2^2) ulp + (b2 (a1 b2 - b1 a2) / a2^3) ulp^2 ...
\* with cross = a1 b2 - b1 a2
DivideWith(x, y, cross) ==
    Context(DecDiv(Rational(x), Rational(y)),
            DecDiv(Neg(cross), DecMul(Rational(y), Rational(y))),
            Sign(y.ulp.num) * Sign(cross.num) * Sign(y.num))

DecimalDiv(x, y) ==
    DivideWith(x, y, DecAdd(DecMul(Rational(x), y.ulp), Neg(DecMul(x.ulp, Rational(y)))))

\* x > 0
DecimalPositive(x) == x.num > 0 \/ (x.num = 0 /\ x.ulp.num > 0)

\* x.quantize(Decimal("0.01")) for x in cents: the nearest integer; at a tie
\* the rounding error of x decides, and without one the even integer
DecimalQuantize(x) ==
    LET q == x.num \div x.den
        r == x.num - q * x.den
    IN  IF 2 * r < x.den THEN q
        ELSE IF 2 * r > x.den THEN q + 1
        ELSE IF x.ulp.num > 0 THEN q + 1
        ELSE IF x.ulp.num < 0 THEN q
        ELSE IF q % 2 = 0 THEN q ELSE q + 1

RECURSIVE SumSeq(_)
SumSeq(s) == IF s = << >> THEN 0 ELSE Head(s) + SumSeq(Tail(s))

Max(a, b) == IF a >= b THEN a ELSE b

(***************************************************************************)
(* Enumerations (src/app/models/enums.py).                                 *)
(***************************************************************************)
MAIN_METER == "main_meter"

SUB_METER == "sub_meter"

PHYSICAL == "physical"

VIRTUAL == "virtual"

ABSOLUTE == "absolute"

RELATIVE == "relative"

ReadingTypes == {ABSOLUTE, RELATIVE}

SubMeterKinds == {PHYSICAL, VIRTUAL}

SubmeterNameSeq == <<"a", "b">>

SubmeterNames == {SubmeterNameSeq[i] : i \in DOMAIN SubmeterNameSeq}

UNMETERED == "_unmetered"

\* The order in which the store returns the rows of a query that has no
\* ORDER BY: by ascending or by descending primary key.
ScanOrders == {"asc", "desc"}

(***************************************************************************)
(* The store.  A table is the sequence of its rows; a row's primary key is *)
(* its index.  The place of a deleted row holds the value Deleted.         *)
(***************************************************************************)
Deleted == [deleted |-> TRUE]

NoResp == [op |-> "none"]

\* The service handles one request at a time: resp is the response of the
\* request just handled, until it has been returned to the caller.
Idle == resp = NoResp

Init ==
    /\ properties = << >>
    /\ meters = << >>
    /\ readings = << >>
    /\ formulas = << >>
    /\ resp = NoResp

Ids(table) == {i \in 1..Len(table) : table[i] # Deleted}

\* the response leaves the service (the request's session is closed)
Return ==
    /\ ~Idle
    /\ resp' = NoResp
    /\ UNCHANGED <<properties, meters, readings, formulas>>

\* db.query(...).filter(...).first(): a matching row's id, None if none
First(ids, scan) ==
    IF ids = {} THEN None
    ELSE IF scan = "asc" THEN Some(CHOOSE i \in ids : \A j \in ids : i <= j)
    ELSE Some(CHOOSE i \in ids : \A j \in ids : i >= j)

\* the ids of a set in the order of the scan, as a sequence
RECURSIVE Ordered(_, _)
Ordered(ids, scan) ==
    IF ids = {} THEN << >>
    ELSE LET i == First(ids, scan)[1]
         IN  <<i>> \o Ordered(ids \ {i}, scan)

(***************************************************************************)
(* Properties and meters (src/app/services/property.py, meter.py).         *)
(***************************************************************************)
create_property ==
    /\ Idle
    /\ Len(properties) < MaxProperties
    /\ properties' = Append(properties, [is_active |-> TRUE])
    /\ meters' = Append(meters,
                    [property_id |-> Len(properties) + 1,
                     meter_type |-> MAIN_METER,
                     sub_meter_kind |-> None,
                     name |-> None,
                     is_active |-> TRUE])
    /\ resp' = [op |-> "create_property", status |-> 201]
    /\ UNCHANGED <<readings, formulas>>

SubmetersOf(p) ==
    {i \in Ids(meters) : meters[i].property_id = p /\ meters[i].meter_type = SUB_METER}

\* The request schema SubMeterCreate carries no kind ("all submeters are
\* physical"): a created submeter is physical.
create_submeter(p, nm) ==
    /\ Idle
    /\ Cardinality({i \in Ids(meters) : meters[i].meter_type = SUB_METER}) < MaxSubmeters
    /\ LET existing == {i \in Ids(meters) :
                          meters[i].property_id = p /\ meters[i].name = Some(nm)}
       IN  IF existing # {}
           THEN /\ resp' = [op |-> "create_submeter", status |-> 400]
                /\ UNCHANGED meters
           ELSE /\ meters' = Append(meters,
                                [property_id |-> p,
                                 meter_type |-> SUB_METER,
                                 sub_meter_kind |-> Some(PHYSICAL),
                                 name |-> Some(nm),
                                 is_active |-> TRUE])
                /\ resp' = [op |-> "create_submeter", status |-> 201]
    /\ UNCHANGED <<properties, readings, formulas>>

get_main_meter_for_property(p, scan) ==
    First({i \in Ids(meters) :
             meters[i].property_id = p /\ meters[i].meter_type = MAIN_METER}, scan)

get_submeters_for_property(p, scan) == Ordered(SubmetersOf(p), scan)

get_submeter_by_name(p, nm, scan) ==
    First({i \in Ids(meters) : meters[i].property_id = p /\ meters[i].name = Some(nm)}, scan)

(***************************************************************************)
(* v2 readings (src/app/services/v2/readings.py).                          *)
(***************************************************************************)
Reading(m, t, v, ty) ==
    [meter_id |-> m, reading_timestamp |-> t, value |-> v, reading_type |-> ty]

create_reading_v2(m, t, v, ty, maxReadings) ==
    /\ Idle
    /\ Len(readings) < maxReadings
    /\ IF m \notin Ids(meters)
       THEN /\ resp' = [op |-> "create_reading", meter_id |-> m, status |-> 404]
            /\ UNCHANGED readings
       ELSE /\ readings' = Append(readings, Reading(m, t, v, ty))
            /\ resp' = [op |-> "create_reading", meter_id |-> m, status |-> 201]
    /\ UNCHANGED <<properties, meters, formulas>>

ReadingsAt(m, t, ty) ==
    {i \in Ids(readings) :
       /\ readings[i].meter_id = m
       /\ readings[i].reading_timestamp = t
       /\ readings[i].reading_type = ty}

\* mutant of RelativeIn: the start of the period is included
RelativeIn_start_inclusive(m, start, end) ==
    {i \in Ids(readings) :
       /\ readings[i].meter_id = m
       /\ readings[i].reading_type = RELATIVE
       /\ readings[i].reading_timestamp >= start
       /\ readings[i].reading_timestamp <= end}

RelativeIn(m, start, end) ==
    {i \in Ids(readings) :
       /\ readings[i].meter_id = m
       /\ readings[i].reading_type = RELATIVE
       /\ readings[i].reading_timestamp > start
       /\ readings[i].reading_timestamp <= end}

RECURSIVE SumValues(_)
SumValues(ids) ==
    IF ids = {} THEN 0
    ELSE LET i == CHOOSE j \in ids : TRUE
         IN  readings[i].value + SumValues(ids \ {i})

\* mutant of compute_meter_consumption: the relative sum takes precedence
compute_meter_consumption_relative_first(m, start, end, scan) ==
    LET start_reading == First(ReadingsAt(m, start, ABSOLUTE), scan)
        end_reading == First(ReadingsAt(m, end, ABSOLUTE), scan)
        relative_readings == RelativeIn(m, start, end)
    IN  IF relative_readings # {}
        THEN Some(SumValues(relative_readings))
        ELSE IF ~IsNone(start_reading) /\ ~IsNone(end_reading)
        THEN Some(readings[end_reading[1]].value - readings[start_reading[1]].value)
        ELSE None

compute_meter_consumption(m, start, end, scan) ==
    LET start_reading == First(ReadingsAt(m, start, ABSOLUTE), scan)
        end_reading == First(ReadingsAt(m, end, ABSOLUTE), scan)
        relative_readings == RelativeIn(m, start, end)
    IN  IF ~IsNone(start_reading) /\ ~IsNone(end_reading)
        THEN Some(readings[end_reading[1]].value - readings[start_reading[1]].value)
        ELSE IF relative_readings # {}
        THEN Some(SumValues(relative_readings))
        ELSE None

\* the internal call compute_meter_consumption(db, meter_id, start, end)
ComputeMeterConsumption(m, start, end, scan) ==
    /\ Idle
    /\ resp' = [op |-> "compute_meter_consumption", meter_id |-> m,
                start |-> start, end |-> end,
                result |-> compute_meter_consumption(m, start, end, scan)]
    /\ UNCHANGED <<properties, meters, readings, formulas>>

(***************************************************************************)
(* Unmetered inference (v1 compute_unmetered_value, v2 _compute_unmetered).*)
(***************************************************************************)
\* mutant of compute_unmetered_value: the negative residual is not clamped
compute_unmetered_value_unclamped(main_meter_value, submeter_values) ==
    IF IsNone(main_meter_value) THEN None
    ELSE Some(main_meter_value[1] - SumSeq(submeter_values))

compute_unmetered_value(main_meter_value, submeter_values) ==
    IF IsNone(main_meter_value) THEN None
    ELSE LET total_submetered == SumSeq(submeter_values)
             unmetered == main_meter_value[1] - total_submetered
         IN  Some(Max(0, unmetered))

\* mutant of _compute_unmetered: a missing main value counts as zero
_compute_unmetered_zero_default(main_value, submeter_values) ==
    LET total_submetered == SumSeq(submeter_values)
        main == IF IsNone(main_value) THEN 0 ELSE main_value[1]
    IN  Some(Max(0, main - total_submetered))

_compute_unmetered(main_value, submeter_values) ==
    IF IsNone(main_value) THEN None
    ELSE LET total_submetered == SumSeq(submeter_values)
         IN  Some(Max(0, main_value[1] - total_submetered))

ComputeUnmeteredValue(main, subs) ==
    /\ Idle
    /\ resp' = [op |-> "compute_unmetered_value", main |-> main, subs |-> subs,
                result |-> compute_unmetered_value(main, subs)]
    /\ UNCHANGED <<properties, meters, readings, formulas>>

ComputeUnmeteredV2(main, subs) ==
    /\ Idle
    /\ resp' = [op |-> "_compute_unmetered", main |-> main, subs |-> subs,
                result |-> _compute_unmetered(main, subs)]
    /\ UNCHANGED <<properties, meters, readings, formulas>>

(***************************************************************************)
(* v2 property consumption and consumption map.                            *)
(***************************************************************************)
\* `name or default` for a nullable name
NameOr(name, default) ==
    IF IsNone(name) \/ name = Some("") THEN default ELSE name[1]

\* the loop over the submeters: entries and total of those with data
\* mutant of SubmeterConsumptionsV2: a submeter without data is zero-filled
RECURSIVE SubmeterConsumptionsV2_zero_filled(_, _, _, _)
SubmeterConsumptionsV2_zero_filled(subs, start, end, scan) ==
    IF subs = << >> THEN [entries |-> << >>, total |-> 0]
    ELSE LET rest == SubmeterConsumptionsV2_zero_filled(SubSeq(subs, 1, Len(subs) - 1),
                                                       start, end, scan)
             submeter == subs[Len(subs)]
             consumption == compute_meter_consumption(submeter, start, end, scan)
             value == IF IsNone(consumption) THEN 0 ELSE consumption[1]
         IN  [entries |-> Append(rest.entries,
                              [name |-> NameOr(meters[submeter].name, ""),
                               meter_id |-> submeter,
                               consumption |-> value,
                               is_virtual |-> FALSE]),
               total |-> rest.total + value]

RECURSIVE SubmeterConsumptionsV2(_, _, _, _)
SubmeterConsumptionsV2(subs, start, end, scan) ==
    IF subs = << >> THEN [entries |-> << >>, total |-> 0]
    ELSE LET rest == SubmeterConsumptionsV2(SubSeq(subs, 1, Len(subs) - 1), start, end, scan)
             submeter == subs[Len(subs)]
             consumption == compute_meter_consumption(submeter, start, end, scan)
         IN  IF ~IsNone(consumption)
             THEN [entries |-> Append(rest.entries,
                                  [name |-> NameOr(meters[submeter].name, ""),
                                   meter_id |-> submeter,
                                   consumption |-> consumption[1],
                                   is_virtual |-> FALSE]),
                   total |-> rest.total + consumption[1]]
             ELSE rest

\* mutant of get_property_consumption_v2: the synthetic entry is appended
\* whenever the unmetered consumption is present, also when it is zero
get_property_consumption_v2_nonnegative(p, start, end, scan) ==
    LET main_meter == get_main_meter_for_property(p, scan)
        main_consumption ==
            IF ~IsNone(main_meter)
            THEN compute_meter_consumption(main_meter[1], start, end, scan)
            ELSE None
        loop == SubmeterConsumptionsV2(get_submeters_for_property(p, scan), start, end, scan)
        total_submetered == loop.total
        unmetered_consumption == _compute_unmetered(main_consumption, <<total_submetered>>)
        submeter_consumptions ==
            IF ~IsNone(unmetered_consumption)
            THEN Append(loop.entries,
                    [name |-> UNMETERED,
                     meter_id |-> -1,
                     consumption |-> unmetered_consumption[1],
                     is_virtual |-> TRUE])
            ELSE loop.entries
    IN  [property_id |-> p,
         start_timestamp |-> start,
         end_timestamp |-> end,
         main_meter_consumption |-> main_consumption,
         submeters |-> submeter_consumptions,
         total_submetered_consumption |-> total_submetered,
         unmetered_consumption |-> unmetered_consumption]

get_property_consumption_v2(p, start, end, scan) ==
    LET main_meter == get_main_meter_for_property(p, scan)
        main_consumption ==
            IF ~IsNone(main_meter)
            THEN compute_meter_consumption(main_meter[1], start, end, scan)
            ELSE None
        loop == SubmeterConsumptionsV2(get_submeters_for_property(p, scan), start, end, scan)
        total_submetered == loop.total
        unmetered_consumption == _compute_unmetered(main_consumption, <<total_submetered>>)
        submeter_consumptions ==
            IF ~IsNone(unmetered_consumption) /\ unmetered_consumption[1] > 0
            THEN Append(loop.entries,
                    [name |-> UNMETERED,
                     meter_id |-> -1,
                     consumption |-> unmetered_consumption[1],
                     is_virtual |-> TRUE])
            ELSE loop.entries
    IN  [property_id |-> p,
         start_timestamp |-> start,
         end_timestamp |-> end,
         main_meter_consumption |-> main_consumption,
         submeters |-> submeter_consumptions,
         total_submetered_consumption |-> total_submetered,
         unmetered_consumption |-> unmetered_consumption]

\* dict assignment d[k] = v
Put(d, k, v) == [x \in DOMAIN d \cup {k} |-> IF x = k THEN v ELSE d[x]]

EmptyDict == [x \in {} |-> 0]

RECURSIVE ConsumptionMapLoop(_, _, _, _)
ConsumptionMapLoop(subs, start, end, scan) ==
    IF subs = << >> THEN [consumptions |-> EmptyDict, total |-> 0]
    ELSE LET rest == ConsumptionMapLoop(SubSeq(subs, 1, Len(subs) - 1), start, end, scan)
             submeter == subs[Len(subs)]
             consumption == compute_meter_consumption(submeter, start, end, scan)
         IN  IF ~IsNone(consumption)
             THEN [consumptions |->
                       Put(rest.consumptions,
                           NameOr(meters[submeter].name, ToString(submeter)),
                           consumption[1]),
                   total |-> rest.total + consumption[1]]
             ELSE rest

compute_consumption_map(p, start, end, scan) ==
    LET main_meter == get_main_meter_for_property(p, scan)
        main_consumption ==
            IF ~IsNone(main_meter)
            THEN compute_meter_consumption(main_meter[1], start, end, scan)
            ELSE None
        loop == ConsumptionMapLoop(get_submeters_for_property(p, scan), start, end, scan)
        unmetered == _compute_unmetered(main_consumption, <<loop.total>>)
        consumptions ==
            IF ~IsNone(unmetered)
            THEN Put(loop.consumptions, UNMETERED, unmetered[1])
            ELSE loop.consumptions
    IN  [consumptions |-> consumptions,
         main_consumption |-> main_consumption,
         unmetered |-> unmetered]

GetPropertyConsumptionV2(p, start, end, scan) ==
    /\ Idle
    /\ resp' = [op |-> "get_property_consumption_v2",
                result |-> get_property_consumption_v2(p, start, end, scan)]
    /\ UNCHANGED <<properties, meters, readings, formulas>>

ComputeConsumptionMap(p, start, end, scan) ==
    /\ Idle
    /\ resp' = [op |-> "compute_consumption_map",
                property_id |-> p, start |-> start, end |-> end,
                result |-> compute_consumption_map(p, start, end, scan)]
    /\ UNCHANGED <<properties, meters, readings, formulas>>

(***************************************************************************)
(* v1 readings (src/app/services/meter_reading.py).  The v1 service never  *)
(* reads or sets a reading's type; the rows it stores carry the default of *)
(* the v2 schemas, absolute.                                               *)
(***************************************************************************)
\* mutant of get_reading_value_at_timestamp: the reading at the timestamp or,
\* failing that, any earlier one
get_reading_value_at_timestamp_or_earlier(m, t, scan) ==
    LET reading == First({i \in Ids(readings) :
                            /\ readings[i].meter_id = m
                            /\ readings[i].reading_timestamp <= t}, scan)
    IN  IF ~IsNone(reading) THEN Some(readings[reading[1]].value) ELSE None


get_reading_value_at_timestamp(m, t, scan) ==
    LET reading == First({i \in Ids(readings) :
                            /\ readings[i].meter_id = m
                            /\ readings[i].reading_timestamp = t}, scan)
    IN  IF ~IsNone(reading) THEN Some(readings[reading[1]].value) ELSE None

RECURSIVE SubmeterConsumptionsV1(_, _, _, _)
SubmeterConsumptionsV1(subs, start, end, scan) ==
    IF subs = << >> THEN [entries |-> << >>, total |-> 0]
    ELSE LET rest == SubmeterConsumptionsV1(SubSeq(subs, 1, Len(subs) - 1), start, end, scan)
             submeter == subs[Len(subs)]
             start_value == get_reading_value_at_timestamp(submeter, start, scan)
             end_value == get_reading_value_at_timestamp(submeter, end, scan)
         IN  IF ~IsNone(start_value) /\ ~IsNone(end_value)
             THEN [entries |-> Append(rest.entries,
                                  [name |-> NameOr(meters[submeter].name, ""),
                                   meter_id |-> submeter,
                                   start_value |-> start_value[1],
                                   end_value |-> end_value[1],
                                   consumption |-> end_value[1] - start_value[1]]),
                   total |-> rest.total + (end_value[1] - start_value[1])]
             ELSE rest

get_property_consumption(p, start, end, scan) ==
    LET main_meter == get_main_meter_for_property(p, scan)
        start_value ==
            IF ~IsNone(main_meter)
            THEN get_reading_value_at_timestamp(main_meter[1], start, scan) ELSE None
        end_value ==
            IF ~IsNone(main_meter)
            THEN get_reading_value_at_timestamp(main_meter[1], end, scan) ELSE None
        main_consumption ==
            IF ~IsNone(start_value) /\ ~IsNone(end_value)
            THEN Some(end_value[1] - start_value[1]) ELSE None
        loop == SubmeterConsumptionsV1(get_submeters_for_property(p, scan), start, end, scan)
        total_submetered == loop.total
        unmetered_consumption ==
            IF ~IsNone(main_consumption)
            THEN Some(Max(0, main_consumption[1] - total_submetered))
            ELSE None
    IN  [property_id |-> p,
         start_timestamp |-> start,
         end_timestamp |-> end,
         main_meter_consumption |-> main_consumption,
         submeters |-> loop.entries,
         total_submetered_consumption |-> total_submetered,
         unmetered_consumption |-> unmetered_consumption]

GetPropertyConsumption(p, start, end, scan) ==
    /\ Idle
    /\ resp' = [op |-> "get_property_consumption",
                result |-> get_property_consumption(p, start, end, scan)]
    /\ UNCHANGED <<properties, meters, readings, formulas>>

\* a request's dict of submeter readings: <<name, value>> pairs in the
\* order of the request, which names the submeters in the order of `names`
RECURSIVE DictsOver(_, _)
DictsOver(names, values) ==
    IF names = << >> THEN {<< >>}
    ELSE LET rest == DictsOver(Tail(names), values)
         IN  rest \cup {<<<<Head(names), v>>>> \o d : v \in values, d \in rest}

RECURSIVE BulkRows(_, _, _, _, _)
BulkRows(p, items, t, ty, scan) ==
    IF items = << >> THEN << >>
    ELSE LET rest == BulkRows(p, SubSeq(items, 1, Len(items) - 1), t, ty, scan)
             item == items[Len(items)]
             submeter == get_submeter_by_name(p, item[1], scan)
         IN  Append(rest, IF IsNone(submeter) THEN None
                          ELSE Some(Reading(submeter[1], t, item[2], ty)))

RECURSIVE Unwrap(_)
Unwrap(rows) == IF rows = << >> THEN << >> ELSE <<Head(rows)[1]>> \o Unwrap(Tail(rows))

\* v1 create_reading: a single reading of an existing meter (the row carries
\* the column default of reading_type)
create_reading(m, t, v, maxReadings) ==
    /\ Idle
    /\ Len(readings) < maxReadings
    /\ IF m \in Ids(meters)
       THEN /\ readings' = Append(readings, Reading(m, t, v, ABSOLUTE))
            /\ resp' = [op |-> "create_reading", status |-> 201]
       ELSE /\ resp' = [op |-> "create_reading", status |-> 404]
            /\ UNCHANGED readings
    /\ UNCHANGED <<properties, meters, formulas>>

\* the number of stored readings of main meters (one per accepted bulk)
MainReadingCount ==
    Cardinality({i \in Ids(readings) : meters[readings[i].meter_id].meter_type = MAIN_METER})

\* v1 create_bulk_readings: the rows are added to the session and committed
\* together; an HTTPException leaves the session uncommitted.
create_bulk_readings(p, t, main_meter_value, submeter_readings, scan, maxBulks) ==
    /\ Idle
    /\ MainReadingCount < maxBulks
    /\ LET main_meter == get_main_meter_for_property(p, scan)
           rows == BulkRows(p, submeter_readings, t, ABSOLUTE, scan)
       IN  IF IsNone(main_meter) \/ \E k \in DOMAIN rows : IsNone(rows[k])
           THEN /\ resp' = [op |-> "create_bulk_readings", property_id |-> p,
                            reading_timestamp |-> t,
                            submeter_readings |-> submeter_readings,
                            reading_type |-> ABSOLUTE, status |-> 404]
                /\ UNCHANGED readings
           ELSE /\ readings' = readings
                                 \o <<Reading(main_meter[1], t, main_meter_value, ABSOLUTE)>>
                                 \o Unwrap(rows)
                /\ resp' = [op |-> "create_bulk_readings", property_id |-> p,
                            reading_timestamp |-> t,
                            submeter_readings |-> submeter_readings,
                            reading_type |-> ABSOLUTE, status |-> 201]
    /\ UNCHANGED <<properties, meters, formulas>>

(***************************************************************************)
(* v1 proportional cost distribution (meter_reading.py distribute_costs).  *)
(***************************************************************************)
\* lines 326-327: the two shares, from the consumption share
SharesFrom(consumption_share, unmetered_consumption) ==
    [consumption_share |-> consumption_share,
     unmetered_share |-> DecimalMul(consumption_share, Decimal(unmetered_consumption))]

\* mutant of UnmeteredShare: the guard against a zero total is dropped
UnmeteredShare_unguarded(sub, consumption) ==
    IF consumption.unmetered_consumption # None
    THEN SharesFrom(DecimalDiv(Decimal(sub.consumption),
                               Decimal(consumption.total_submetered_consumption)),
                    consumption.unmetered_consumption[1])
    ELSE [consumption_share |-> Decimal(0), unmetered_share |-> Decimal(0)]

\* lines 322-330: a submeter's share of the unmetered consumption
UnmeteredShare(sub, consumption) ==
    IF /\ consumption.total_submetered_consumption > 0
       /\ consumption.unmetered_consumption # None
    THEN SharesFrom(DecimalDiv(Decimal(sub.consumption),
                               Decimal(consumption.total_submetered_consumption)),
                    consumption.unmetered_consumption[1])
    ELSE [consumption_share |-> Decimal(0), unmetered_share |-> Decimal(0)]

\* lines 332-346: the share appended for a submeter entry, cost still 0
CostShare(sub, u) ==
    [name |-> sub.name,
     meter_id |-> sub.meter_id,
     consumption |-> sub.consumption,
     consumption_share |-> u.consumption_share,
     unmetered_share |-> u.unmetered_share,
     total_consumption |-> DecimalAdd(Decimal(sub.consumption), u.unmetered_share),
     cost |-> 0]

\* lines 320-346: the first loop, one share per submeter entry
CostShares(subs, consumption) ==
    [k \in DOMAIN subs |-> CostShare(subs[k], UnmeteredShare(subs[k], consumption))]

\* mutant of TotalConsumptionForCost: the submeters' own consumption is
\* summed, without their shares of the unmetered consumption
RECURSIVE TotalConsumptionForCost_own(_)
TotalConsumptionForCost_own(shares) ==
    IF shares = << >> THEN Decimal(0)
    ELSE DecimalAdd(TotalConsumptionForCost_own(SubSeq(shares, 1, Len(shares) - 1)),
                    Decimal(shares[Len(shares)].consumption))

RECURSIVE TotalConsumptionForCost(_)
TotalConsumptionForCost(shares) ==
    IF shares = << >> THEN Decimal(0)
    ELSE DecimalAdd(TotalConsumptionForCost(SubSeq(shares, 1, Len(shares) - 1)),
                    shares[Len(shares)].total_consumption)

\* lines 349-352: a share's cost
AllocateCost(share, total_consumption_for_cost, total_cost) ==
    IF DecimalPositive(total_consumption_for_cost)
    THEN LET cost_ratio == DecimalDiv(share.total_consumption, total_consumption_for_cost)
         IN  DecimalQuantize(DecimalMul(cost_ratio, Decimal(total_cost)))
    ELSE 0

\* lines 348-352: the second loop, the cost of every share
WithCosts(shares, total_consumption_for_cost, total_cost) ==
    [k \in DOMAIN shares |->
       [shares[k] EXCEPT
          !.cost = AllocateCost(shares[k], total_consumption_for_cost, total_cost)]]

\* lines 348-362: the costs and the result, from the shares of the first
\* loop; a division by zero in that loop leaves the request with a 500
DistributionOf(p, start, end, total_cost, consumption, shares) ==
    IF \E k \in DOMAIN shares :
          Raised(shares[k].consumption_share) \/ Raised(shares[k].unmetered_share)
    THEN [status |-> 500]
    ELSE [status |-> 200,
          property_id |-> p,
          start_timestamp |-> start,
          end_timestamp |-> end,
          total_cost |-> total_cost,
          main_meter_consumption |-> consumption.main_meter_consumption,
          unmetered_consumption |-> consumption.unmetered_consumption,
          submeters |-> WithCosts(shares, TotalConsumptionForCost(shares), total_cost)]

\* lines 316-362: the distribution of a consumption summary
DistributionFor(p, start, end, total_cost, consumption) ==
    DistributionOf(p, start, end, total_cost, consumption,
                   CostShares(consumption.submeters, consumption))

distribute_costs(p, start, end, total_cost, scan) ==
    DistributionFor(p, start, end, total_cost,
                    get_property_consumption(p, start, end, scan))

DistributeCosts(p, start, end, total_cost, scan) ==
    /\ Idle
    /\ resp' = [op |-> "distribute_costs",
                result |-> distribute_costs(p, start, end, total_cost, scan)]
    /\ UNCHANGED <<properties, meters, readings, formulas>>

(***************************************************************************)
(* Single-meter consumption: one property, readings of its main meter.     *)
(***************************************************************************)
MeterTimes == 0..MeterMaxTime

MeterValues == 0..MeterMaxValue

NextMeter ==
    \/ Return
    \/ create_property
    \/ \E m \in 1..MaxProperties, t \in MeterTimes, v \in MeterValues, ty \in ReadingTypes :
         create_reading_v2(m, t, v, ty, MeterMaxReadings)
    \/ \E m \in 1..MaxProperties, s \in MeterTimes, e \in MeterTimes, scan \in ScanOrders :
         ComputeMeterConsumption(m, s, e, scan)

SpecMeter == Init /\ [][NextMeter]_vars

(***************************************************************************)
(* Property consumption: one property with its submeters, single v2        *)
(* readings, the v1 and v2 summaries, the consumption map and the two      *)
(* unmetered functions.                                                    *)
(***************************************************************************)
PropTimes == 0..PropMaxTime

PropValues == 0..PropMaxValue

Optional(S) == {None} \cup {Some(v) : v \in S}

SeqsUpTo(S, n) == UNION {[1..k -> S] : k \in 0..n}

NextProperty ==
    \/ Return
    \/ create_property
    \/ \E p \in 1..MaxProperties, nm \in SubmeterNames : create_submeter(p, nm)
    \/ \E m \in 1..(MaxProperties + MaxSubmeters), t \in PropTimes, v \in PropValues,
          ty \in ReadingTypes :
         create_reading_v2(m, t, v, ty, PropMaxReadings)
    \/ \E p \in 1..MaxProperties, s \in PropTimes, e \in PropTimes, scan \in ScanOrders :
         \/ GetPropertyConsumptionV2(p, s, e, scan)
         \/ GetPropertyConsumption(p, s, e, scan)
         \/ ComputeConsumptionMap(p, s, e, scan)

SpecProperty == Init /\ [][NextProperty]_vars

(***************************************************************************)
(* Unmetered inference alone: the two functions applied to every main      *)
(* value (or None) and every list of submeter values within the bounds.    *)
(***************************************************************************)
UnmeteredValues == (-MaxUnmeteredValue)..MaxUnmeteredValue

NextUnmetered ==
    \/ Return
    \/ \E main \in Optional(UnmeteredValues), subs \in SeqsUpTo(UnmeteredValues, MaxListLen) :
         \/ ComputeUnmeteredValue(main, subs)
         \/ ComputeUnmeteredV2(main, subs)

SpecUnmetered == Init /\ [][NextUnmetered]_vars

(***************************************************************************)
(* Proportional cost distribution: one property with its submeters, bulk   *)
(* submissions of absolute readings, and the v1 distribution.              *)
(***************************************************************************)
CostTimes == 0..CostMaxTime

CostValues == 0..CostMaxValue

\* total_cost in cents: a few cents, and whole currency units
Costs == (0..MaxCost) \cup {100 * c : c \in 1..MaxCost}

NextCosts ==
    \/ Return
    \/ create_property
    \/ \E p \in 1..MaxProperties, nm \in SubmeterNames : create_submeter(p, nm)
    \/ \E p \in 1..MaxProperties, t \in CostTimes, v \in CostValues,
          d \in DictsOver(SubmeterNameSeq, CostValues), scan \in ScanOrders :
         create_bulk_readings(p, t, v, d, scan, CostMaxBulks)
    \/ \E p \in 1..MaxProperties, s \in CostTimes, e \in CostTimes, c \in Costs,
          scan \in ScanOrders :
         DistributeCosts(p, s, e, c, scan)

SpecCosts == Init /\ [][NextCosts]_vars

(***************************************************************************)
(* Proportional cost distribution over readings entered one at a time, so  *)
(* that a submeter can have readings where the main meter has none.        *)
(***************************************************************************)
ShareTimes == 0..ShareMaxTime

ShareValues == 0..ShareMaxValue

NextShares ==
    \/ Return
    \/ create_property
    \/ \E p \in 1..MaxProperties, nm \in SubmeterNames : create_submeter(p, nm)
    \/ \E m \in 1..(MaxProperties + MaxSubmeters), t \in ShareTimes, v \in ShareValues :
         create_reading(m, t, v, ShareMaxReadings)
    \/ \E p \in 1..MaxProperties, s \in ShareTimes, e \in ShareTimes, c \in Costs,
          scan \in ScanOrders :
         DistributeCosts(p, s, e, c, scan)

SpecShares == Init /\ [][NextShares]_vars

(***************************************************************************)
(* Cost formulas (src/app/services/v2/billing.py).  A formula's terms are  *)
(* a dict from meter names to Decimal coefficients, kept as the sequence   *)
(* of its items.  A coefficient is a Decimal literal: digits and a number  *)
(* of decimal places.                                                      *)
(***************************************************************************)
\* the value of a Decimal literal
ToDec(c) == Norm(c.digits, Pow10(c.places))

\* str(Decimal) writes the digits and the decimal places of the literal
DecimalStr(c) == <<c.digits, c.places>>

\* Decimal(str) reads them back
DecimalParse(s) == [digits |-> s[1], places |-> s[2]]

\* CostFormula.set_terms: json.dumps({k: str(v) ...})
set_terms(terms) == [k \in DOMAIN terms |-> <<terms[k][1], DecimalStr(terms[k][2])>>]

\* CostFormula.get_terms: {k: Decimal(str(v)) ...} of json.loads(terms_json)
get_terms(terms_json) ==
    [k \in DOMAIN terms_json |-> <<terms_json[k][1], DecimalParse(terms_json[k][2])>>]

\* the active formulas of the property that carry the name
ActiveNamed(p, name) ==
    {i \in Ids(formulas) : /\ formulas[i].property_id = p
                           /\ formulas[i].name = name
                           /\ formulas[i].is_active}

create_formula(p, name, terms) ==
    /\ Idle
    /\ Len(formulas) < MaxFormulas
    /\ IF ActiveNamed(p, name) # {}
       THEN /\ resp' = [op |-> "create_formula", status |-> 400]
            /\ UNCHANGED formulas
       ELSE /\ formulas' = Append(formulas, [property_id |-> p,
                                             name |-> name,
                                             terms_json |-> set_terms(terms),
                                             is_active |-> TRUE])
            /\ resp' = [op |-> "create_formula", status |-> 201]
    /\ UNCHANGED <<properties, meters, readings>>

update_formula(formula_id, name, terms, is_active) ==
    /\ Idle
    /\ IF formula_id \notin Ids(formulas)
       THEN /\ resp' = [op |-> "update_formula", status |-> 404]
            /\ UNCHANGED formulas
       ELSE LET formula == formulas[formula_id]
                existing == IF IsNone(name) THEN {}
                            ELSE ActiveNamed(formula.property_id, name[1]) \ {formula_id}
            IN  IF existing # {}
                THEN /\ resp' = [op |-> "update_formula", status |-> 400]
                     /\ UNCHANGED formulas
                ELSE /\ formulas' =
                          [formulas EXCEPT ![formula_id] =
                              [property_id |-> formula.property_id,
                               name |-> IF IsNone(name) THEN formula.name ELSE name[1],
                               terms_json |-> IF IsNone(terms) THEN formula.terms_json
                                              ELSE set_terms(terms[1]),
                               is_active |-> IF IsNone(is_active) THEN formula.is_active
                                             ELSE is_active[1]]]
                     /\ resp' = [op |-> "update_formula", status |-> 200]
    /\ UNCHANGED <<properties, meters, readings>>

\* mutant of delete_formula: the row is removed from the table
delete_formula_hard(formula_id) ==
    /\ Idle
    /\ IF formula_id \notin Ids(formulas)
       THEN /\ resp' = [op |-> "delete_formula", formula_id |-> formula_id, status |-> 404]
            /\ UNCHANGED formulas
       ELSE /\ formulas' = [i \in 1..(Len(formulas) - 1) |->
                               IF i < formula_id THEN formulas[i] ELSE formulas[i + 1]]
            /\ resp' = [op |-> "delete_formula", formula_id |-> formula_id, status |-> 204]
    /\ UNCHANGED <<properties, meters, readings>>

\* delete_formula: a soft delete
delete_formula(formula_id) ==
    /\ Idle
    /\ IF formula_id \notin Ids(formulas)
       THEN /\ resp' = [op |-> "delete_formula", formula_id |-> formula_id, status |-> 404]
            /\ UNCHANGED formulas
       ELSE /\ formulas' = [formulas EXCEPT ![formula_id].is_active = FALSE]
            /\ resp' = [op |-> "delete_formula", formula_id |-> formula_id, status |-> 204]
    /\ UNCHANGED <<properties, meters, readings>>

\* get_formula: the row of the id, or 404
get_formula(formula_id) ==
    IF formula_id \in Ids(formulas) THEN Some(formulas[formula_id]) ELSE None

formula_to_response(formula_id) ==
    [id |-> formula_id,
     property_id |-> formulas[formula_id].property_id,
     name |-> formulas[formula_id].name,
     terms |-> get_terms(formulas[formula_id].terms_json),
     is_active |-> formulas[formula_id].is_active]

\* GET /formulas/{formula_id}
GetFormula(formula_id) ==
    /\ Idle
    /\ resp' = IF IsNone(get_formula(formula_id))
               THEN [op |-> "get_formula", formula_id |-> formula_id, status |-> 404]
               ELSE [op |-> "get_formula", formula_id |-> formula_id, status |-> 200,
                     result |-> formula_to_response(formula_id)]
    /\ UNCHANGED <<properties, meters, readings, formulas>>

(***************************************************************************)
(* Request validation of the formula schemas                               *)
(* (src/app/schemas/v2/billing.py) in front of the v2 billing routes.      *)
(***************************************************************************)
\* str.strip() on the keys the requests of the model carry
Strip(key) ==
    CASE key = " " -> ""
      [] key = " a" -> "a"
      [] OTHER -> key

\* mutant of validate_terms: only the emptiness of the mapping is checked
validate_terms_nonempty_only(v) == v # << >>

\* CostFormulaCreate.validate_terms: TRUE when no ValueError is raised
validate_terms(v) ==
    /\ v # << >>
    /\ \A k \in DOMAIN v : ~(v[k][1] = "" \/ Strip(v[k][1]) = "")

\* CostFormulaUpdate.validate_terms
validate_terms_update(v) ==
    IsNone(v) \/ (/\ v[1] # << >>
                  /\ \A k \in DOMAIN v[1] : ~(v[1][k][1] = "" \/ Strip(v[1][k][1]) = ""))

\* POST /formulas/: a request that fails validation never reaches the service
create_formula_route(p, name, terms) ==
    IF validate_terms(terms)
    THEN create_formula(p, name, terms)
    ELSE /\ Idle
         /\ resp' = [op |-> "create_formula", status |-> 422]
         /\ UNCHANGED <<properties, meters, readings, formulas>>

\* PATCH /formulas/{formula_id}
update_formula_route(formula_id, name, terms, is_active) ==
    IF validate_terms_update(terms)
    THEN update_formula(formula_id, name, terms, is_active)
    ELSE /\ Idle
         /\ resp' = [op |-> "update_formula", status |-> 422]
         /\ UNCHANGED <<properties, meters, readings, formulas>>

\* mutant of get_formulas_for_property: the active_only filter is dropped
get_formulas_for_property_all(p, active_only, scan) ==
    Ordered({i \in Ids(formulas) : formulas[i].property_id = p}, scan)

get_formulas_for_property(p, active_only, scan) ==
    Ordered({i \in Ids(formulas) : /\ formulas[i].property_id = p
                                   /\ active_only => formulas[i].is_active}, scan)

RECURSIVE Responses(_)
Responses(ids) ==
    IF ids = << >> THEN << >>
    ELSE <<formula_to_response(Head(ids))>> \o Responses(Tail(ids))

\* GET /formulas/property/{property_id}
ListFormulas(p, active_only, scan) ==
    /\ Idle
    /\ resp' = [op |-> "list_formulas", property_id |-> p, active_only |-> active_only,
                status |-> 200,
                result |-> Responses(get_formulas_for_property(p, active_only, scan))]
    /\ UNCHANGED <<properties, meters, readings, formulas>>

\* dict.get(key, default)
Get(d, key, default) == IF key \in DOMAIN d THEN d[key] ELSE default

\* mutant of WeightedSum: the coefficients are ignored
RECURSIVE WeightedSum_unweighted(_, _)
WeightedSum_unweighted(terms, consumptions) ==
    IF terms = << >> THEN Dec(0)
    ELSE DecAdd(WeightedSum_unweighted(SubSeq(terms, 1, Len(terms) - 1), consumptions),
                Dec(Get(consumptions, terms[Len(terms)][1], 0)))

\* sum(coeff * consumptions.get(meter_name, 0) for meter_name, coeff in terms.items())
RECURSIVE WeightedSum(_, _)
WeightedSum(terms, consumptions) ==
    IF terms = << >> THEN Dec(0)
    ELSE DecAdd(WeightedSum(SubSeq(terms, 1, Len(terms) - 1), consumptions),
                DecMul(ToDec(terms[Len(terms)][2]),
                       Dec(Get(consumptions, terms[Len(terms)][1], 0))))

\* mutant of evaluate_formula: the share is taken of the weighted sum of the
\* formula's own meters instead of the main consumption
evaluate_formula_own_total(terms, consumptions, total_cost, main_consumption) ==
    LET weighted == WeightedSum(terms, consumptions)
    IN  IF main_consumption <= 0 \/ weighted.num = 0 THEN 0
        ELSE Quantize(DecDiv(DecMul(Dec(total_cost), weighted), weighted))

\* evaluate_formula: the cost in cents
evaluate_formula(terms, consumptions, total_cost, main_consumption) ==
    LET weighted == WeightedSum(terms, consumptions)
    IN  IF main_consumption <= 0 THEN 0
        ELSE Quantize(DecDiv(DecMul(Dec(total_cost), weighted), Dec(main_consumption)))

\* mutant of FormulaShares: a formula after the first is charged what the
\* formulas before it left of the total cost
RECURSIVE FormulaShares_remainder(_, _, _, _)
FormulaShares_remainder(fs, consumptions, total_cost, main_consumption) ==
    IF fs = << >> THEN << >>
    ELSE LET formula == formulas[fs[Len(fs)]]
             terms == get_terms(formula.terms_json)
             rest == FormulaShares_remainder(SubSeq(fs, 1, Len(fs) - 1), consumptions,
                                             total_cost, main_consumption)
         IN  Append(rest,
                    [formula_id |-> fs[Len(fs)],
                     name |-> formula.name,
                     terms |-> terms,
                     weighted_consumption |-> WeightedSum(terms, consumptions),
                     cost |-> IF rest = << >>
                              THEN evaluate_formula(terms, consumptions, total_cost,
                                                    main_consumption)
                              ELSE total_cost - rest[Len(rest)].cost])

\* the loop over the active formulas
RECURSIVE FormulaShares(_, _, _, _)
FormulaShares(fs, consumptions, total_cost, main_consumption) ==
    IF fs = << >> THEN << >>
    ELSE LET formula == formulas[fs[Len(fs)]]
             terms == get_terms(formula.terms_json)
         IN  Append(FormulaShares(SubSeq(fs, 1, Len(fs) - 1), consumptions, total_cost,
                                  main_consumption),
                    [formula_id |-> fs[Len(fs)],
                     name |-> formula.name,
                     terms |-> terms,
                     weighted_consumption |-> WeightedSum(terms, consumptions),
                     cost |-> evaluate_formula(terms, consumptions, total_cost,
                                               main_consumption)])

NoFormulas == "No active cost formulas found for this property"

NoMainConsumption == "Main meter consumption is zero or unavailable for this period"

\* mutant of distribute_costs_v2: only an absent main consumption is refused
distribute_costs_v2_absent_only(p, start, end, total_cost, scan) ==
    LET fs == get_formulas_for_property(p, TRUE, scan)
        map == compute_consumption_map(p, start, end, scan)
    IN  IF fs = << >>
        THEN [status |-> 400, detail |-> NoFormulas]
        ELSE IF IsNone(map.main_consumption)
        THEN [status |-> 400, detail |-> NoMainConsumption]
        ELSE [status |-> 200,
              property_id |-> p,
              start_timestamp |-> start,
              end_timestamp |-> end,
              total_cost |-> total_cost,
              main_meter_consumption |-> map.main_consumption,
              unmetered_consumption |-> map.unmetered,
              meter_consumptions |-> map.consumptions,
              shares |-> FormulaShares(fs, map.consumptions, total_cost,
                                       map.main_consumption[1])]

\* v2 distribute_costs (billing.py)
distribute_costs_v2(p, start, end, total_cost, scan) ==
    LET fs == get_formulas_for_property(p, TRUE, scan)
        map == compute_consumption_map(p, start, end, scan)
    IN  IF fs = << >>
        THEN [status |-> 400, detail |-> NoFormulas]
        ELSE IF IsNone(map.main_consumption) \/ map.main_consumption[1] <= 0
        THEN [status |-> 400, detail |-> NoMainConsumption]
        ELSE [status |-> 200,
              property_id |-> p,
              start_timestamp |-> start,
              end_timestamp |-> end,
              total_cost |-> total_cost,
              main_meter_consumption |-> map.main_consumption,
              unmetered_consumption |-> map.unmetered,
              meter_consumptions |-> map.consumptions,
              shares |-> FormulaShares(fs, map.consumptions, total_cost,
                                       map.main_consumption[1])]

DistributeCostsV2(p, start, end, total_cost, scan) ==
    /\ Idle
    /\ resp' = [op |-> "distribute_costs_v2",
                property_id |-> p, start |-> start, end |-> end,
                result |-> distribute_costs_v2(p, start, end, total_cost, scan)]
    /\ UNCHANGED <<properties, meters, readings, formulas>>

\* the rows of a batch up to its first unresolved name
RECURSIVE ResolvedPrefix(_)
ResolvedPrefix(rows) ==
    IF rows = << >> \/ IsNone(Head(rows)) THEN << >>
    ELSE <<Head(rows)[1]>> \o ResolvedPrefix(Tail(rows))

\* mutant of create_bulk_readings_v2: every row is committed as it is added
create_bulk_readings_v2_autocommit(p, t, main_meter_value, submeter_readings, ty, scan, maxBulks) ==
    /\ Idle
    /\ MainReadingCount < maxBulks
    /\ LET main_meter == get_main_meter_for_property(p, scan)
           rows == BulkRows(p, submeter_readings, t, ty, scan)
       IN  IF IsNone(main_meter)
           THEN /\ resp' = [op |-> "create_bulk_readings_v2", property_id |-> p,
                            reading_timestamp |-> t,
                            submeter_readings |-> submeter_readings,
                            reading_type |-> ty, status |-> 404]
                /\ UNCHANGED readings
           ELSE /\ readings' = readings
                                 \o <<Reading(main_meter[1], t, main_meter_value, ty)>>
                                 \o ResolvedPrefix(rows)
                /\ resp' = [op |-> "create_bulk_readings_v2", property_id |-> p,
                            reading_timestamp |-> t,
                            submeter_readings |-> submeter_readings,
                            reading_type |-> ty,
                            status |-> IF \E k \in DOMAIN rows : IsNone(rows[k])
                                       THEN 404 ELSE 201]
    /\ UNCHANGED <<properties, meters, formulas>>


\* v2 create_bulk_readings: as v1, with the reading type of the request
create_bulk_readings_v2(p, t, main_meter_value, submeter_readings, ty, scan, maxBulks) ==
    /\ Idle
    /\ MainReadingCount < maxBulks
    /\ LET main_meter == get_main_meter_for_property(p, scan)
           rows == BulkRows(p, submeter_readings, t, ty, scan)
       IN  IF IsNone(main_meter) \/ \E k \in DOMAIN rows : IsNone(rows[k])
           THEN /\ resp' = [op |-> "create_bulk_readings_v2", property_id |-> p,
                            reading_timestamp |-> t,
                            submeter_readings |-> submeter_readings,
                            reading_type |-> ty, status |-> 404]
                /\ UNCHANGED readings
           ELSE /\ readings' = readings
                                 \o <<Reading(main_meter[1], t, main_meter_value, ty)>>
                                 \o Unwrap(rows)
                /\ resp' = [op |-> "create_bulk_readings_v2", property_id |-> p,
                            reading_timestamp |-> t,
                            submeter_readings |-> submeter_readings,
                            reading_type |-> ty, status |-> 201]
    /\ UNCHANGED <<properties, meters, formulas>>

(***************************************************************************)
(* Formula-based billing: one property with one submeter, bulk readings of *)
(* either type, formulas created, updated and deleted, and the v2          *)
(* distribution.                                                           *)
(***************************************************************************)
BillTimes == 0..BillMaxTime

BillValues == 0..BillMaxValue

BillSubmeterNameSeq == SubSeq(SubmeterNameSeq, 1, BillMaxSubmeters)

FormulaNames == {"f", "g"}

\* coefficients in halves
Coeffs == {[digits |-> 5 * c, places |-> 1] : c \in 1..MaxCoeff}

\* the names a term can carry: a submeter, the unmetered key, and the name
\* of no meter
TermNameSeq == <<"a", UNMETERED, "x">>

TermChoices == DictsOver(TermNameSeq, Coeffs) \ {<< >>}

NextBilling ==
    \/ Return
    \/ create_property
    \/ \E p \in 1..MaxProperties, k \in DOMAIN BillSubmeterNameSeq :
         create_submeter(p, BillSubmeterNameSeq[k])
    \/ \E p \in 1..MaxProperties, t \in BillTimes, v \in BillValues,
          d \in DictsOver(BillSubmeterNameSeq, BillValues), ty \in ReadingTypes,
          scan \in ScanOrders :
         create_bulk_readings_v2(p, t, v, d, ty, scan, BillMaxBulks)
    \/ \E p \in 1..MaxProperties, name \in FormulaNames, terms \in TermChoices :
         create_formula(p, name, terms)
    \/ \E id \in 1..MaxFormulas, name \in Optional(FormulaNames),
          terms \in Optional(TermChoices), is_active \in Optional(BOOLEAN) :
         update_formula(id, name, terms, is_active)
    \/ \E id \in 1..MaxFormulas : delete_formula(id)
    \/ \E p \in 1..MaxProperties, s \in BillTimes, e \in BillTimes, c \in Costs,
          scan \in ScanOrders :
         DistributeCostsV2(p, s, e, c, scan)

SpecBilling == Init /\ [][NextBilling]_vars

(***************************************************************************)
(* Claims about compute_meter_consumption, checked under SpecMeter.        *)
(***************************************************************************)
IsMeterConsumption == resp.op = "compute_meter_consumption"

AbsoluteAt(m, t) ==
    {i \in Ids(readings) :
       /\ readings[i].meter_id = m
       /\ readings[i].reading_type = ABSOLUTE
       /\ readings[i].reading_timestamp = t}

RelativeWithin(m, start, end) ==
    {i \in Ids(readings) :
       /\ readings[i].meter_id = m
       /\ readings[i].reading_type = RELATIVE
       /\ start < readings[i].reading_timestamp
       /\ readings[i].reading_timestamp <= end}

RECURSIVE TotalOf(_)
TotalOf(ids) ==
    IF ids = {} THEN 0
    ELSE LET i == CHOOSE j \in ids : \A k \in ids : j >= k
         IN  TotalOf(ids \ {i}) + readings[i].value

HasBothAbsolute(m, start, end) ==
    AbsoluteAt(m, start) # {} /\ AbsoluteAt(m, end) # {}

\* C3: when the meter has an absolute reading exactly at start and one
\* exactly at end, compute_meter_consumption returns the end value minus the
\* start value of such readings, whatever relative readings are stored; when
\* one of the two is missing, absolute readings at other timestamps yield
\* nothing (without relative readings in the period the result is None).
C3_AbsolutePrecedence ==
    IsMeterConsumption =>
        LET S == AbsoluteAt(resp.meter_id, resp.start)
            E == AbsoluteAt(resp.meter_id, resp.end)
        IN  /\ (S # {} /\ E # {}) =>
                  \E i \in S, j \in E :
                     resp.result = Some(readings[j].value - readings[i].value)
            /\ ((S = {} \/ E = {})
                  /\ RelativeWithin(resp.meter_id, resp.start, resp.end) = {}) =>
                  resp.result = None

\* C3 witness: absolute readings at start and end, and relative readings in
\* the period whose sum differs from the reported difference.
C3_Witness ==
    /\ IsMeterConsumption
    /\ HasBothAbsolute(resp.meter_id, resp.start, resp.end)
    /\ RelativeWithin(resp.meter_id, resp.start, resp.end) # {}
    /\ resp.result # Some(TotalOf(RelativeWithin(resp.meter_id, resp.start, resp.end)))

\* C4: when the meter lacks an absolute reading at start or at end, the
\* result is the sum of exactly its relative readings with start < t <= end,
\* and it is None exactly when there is no such reading.
C4_RelativeFallback ==
    (IsMeterConsumption /\ ~HasBothAbsolute(resp.meter_id, resp.start, resp.end)) =>
        LET R == RelativeWithin(resp.meter_id, resp.start, resp.end)
        IN  /\ R # {} => resp.result = Some(TotalOf(R))
            /\ R = {} <=> resp.result = None

\* C4 witness: a relative reading at start (excluded), one at end (included),
\* no absolute pair, and a zero sum that is reported as 0 rather than None.
C4_Witness ==
    /\ IsMeterConsumption
    /\ ~HasBothAbsolute(resp.meter_id, resp.start, resp.end)
    /\ resp.start < resp.end
    /\ \E i, j \in Ids(readings) :
          /\ readings[i].meter_id = resp.meter_id
          /\ readings[j].meter_id = resp.meter_id
          /\ readings[i].reading_type = RELATIVE
          /\ readings[j].reading_type = RELATIVE
          /\ readings[i].reading_timestamp = resp.start
          /\ readings[j].reading_timestamp = resp.end
          /\ readings[i].value > 0
          /\ readings[j].value = 0
    /\ resp.result = Some(0)

(***************************************************************************)
(* Claims about unmetered inference, checked under SpecUnmetered.          *)
(***************************************************************************)
IsUnmeteredCall == resp.op \in {"compute_unmetered_value", "_compute_unmetered"}

RECURSIVE ListTotal(_, _)
ListTotal(s, n) == IF n = 0 THEN 0 ELSE ListTotal(s, n - 1) + s[n]

\* C1: for a present main value m and a list S, both unmetered functions
\* return max(0, m - sum(S)): never negative, and 0 whenever sum(S) >= m.
C1_UnmeteredClamped ==
    (IsUnmeteredCall /\ resp.main # None) =>
        LET m == resp.main[1]
            total == ListTotal(resp.subs, Len(resp.subs))
        IN  /\ resp.result # None
            /\ resp.result[1] >= 0
            /\ resp.result[1] = (IF m - total > 0 THEN m - total ELSE 0)
            /\ total >= m => resp.result[1] = 0

\* C1 witness: a call whose submeter values sum to more than a positive
\* main value, answered with 0.
C1_Witness ==
    /\ IsUnmeteredCall
    /\ resp.main # None
    /\ resp.main[1] > 0
    /\ ListTotal(resp.subs, Len(resp.subs)) > resp.main[1]
    /\ resp.result = Some(0)

(***************************************************************************)
(* Claims about the consumption summaries, checked under SpecProperty.     *)
(***************************************************************************)
IsSummaryV1 == resp.op = "get_property_consumption"

IsSummaryV2 == resp.op = "get_property_consumption_v2"

IsConsumptionMap == resp.op = "compute_consumption_map"

\* C2: an absent main value propagates as absent: both unmetered functions
\* return None for a None main value and every list, and in every v1 and v2
\* summary and every consumption map the unmetered consumption is None
\* whenever the main-meter consumption is None.
C2_AbsentMainPropagates ==
    /\ \A S \in SeqsUpTo(PropValues, MaxListLen) :
          /\ compute_unmetered_value(None, S) = None
          /\ _compute_unmetered(None, S) = None
    /\ (IsSummaryV1 \/ IsSummaryV2) =>
          (resp.result.main_meter_consumption = None
             => resp.result.unmetered_consumption = None)
    /\ IsConsumptionMap =>
          (resp.result.main_consumption = None
             => /\ resp.result.unmetered = None
                /\ UNMETERED \notin DOMAIN resp.result.consumptions)

\* C2 witness: a v2 summary without main-meter consumption in which a
\* submeter's consumption was computed.
C2_Witness ==
    /\ IsSummaryV2
    /\ resp.result.main_meter_consumption = None
    /\ resp.result.submeters # << >>
    /\ resp.result.total_submetered_consumption > 0
    /\ resp.result.unmetered_consumption = None

HasData(m, start, end) ==
    HasBothAbsolute(m, start, end) \/ RelativeWithin(m, start, end) # {}

RECURSIVE EntriesTotal(_, _)
EntriesTotal(es, n) ==
    IF n = 0 THEN 0
    ELSE EntriesTotal(es, n - 1) + (IF es[n].is_virtual THEN 0 ELSE es[n].consumption)

\* C5: in every v2 summary the non-virtual entries are exactly the
\* property's submeters that have data for the period (one entry each, none
\* zero-filled), total_submetered_consumption is the sum of their
\* consumption, and with main consumption present unmetered_consumption is
\* max(0, main - total).
C5_SummaryEntries ==
    IsSummaryV2 =>
        LET r == resp.result
            es == r.submeters
            real == {k \in DOMAIN es : ~es[k].is_virtual}
            withData == {m \in Ids(meters) :
                           /\ meters[m].property_id = r.property_id
                           /\ meters[m].meter_type = SUB_METER
                           /\ HasData(m, r.start_timestamp, r.end_timestamp)}
        IN  /\ {es[k].meter_id : k \in real} = withData
            /\ Cardinality(real) = Cardinality(withData)
            /\ r.total_submetered_consumption = EntriesTotal(es, Len(es))
            /\ r.main_meter_consumption # None =>
                  LET d == r.main_meter_consumption[1] - r.total_submetered_consumption
                  IN  r.unmetered_consumption = Some(IF d > 0 THEN d ELSE 0)

\* C5 witness: a property with two submeters of which exactly one has data,
\* and a main consumption that the submetered total exceeds (clamped to 0).
C5_Witness ==
    /\ IsSummaryV2
    /\ Cardinality(SubmetersOf(resp.result.property_id)) = 2
    /\ Cardinality({k \in DOMAIN resp.result.submeters :
                      ~resp.result.submeters[k].is_virtual}) = 1
    /\ resp.result.main_meter_consumption # None
    /\ resp.result.total_submetered_consumption > resp.result.main_meter_consumption[1]
    /\ resp.result.unmetered_consumption = Some(0)

(***************************************************************************)
(* Claims about proportional cost distribution, checked under SpecCosts   *)
(* (bulk submissions) and SpecShares (single readings).                    *)
(***************************************************************************)
IsDistribution == resp.op = "distribute_costs"

RECURSIVE OwnTotal(_, _)
OwnTotal(shares, n) == IF n = 0 THEN 0 ELSE OwnTotal(shares, n - 1) + shares[n].consumption

RECURSIVE GrandTotal(_, _)
GrandTotal(shares, n) ==
    IF n = 0 THEN Decimal(0)
    ELSE DecimalAdd(GrandTotal(shares, n - 1), shares[n].total_consumption)

RECURSIVE CostTotal(_, _)
CostTotal(shares, n) == IF n = 0 THEN 0 ELSE CostTotal(shares, n - 1) + shares[n].cost

\* C6 (as claimed): every entry's consumption_share is consumption /
\* total_submetered_consumption when that total is > 0, and 0 otherwise,
\* whether or not unmetered consumption is absent.
C6_ConsumptionShare ==
    (IsDistribution /\ resp.result.status = 200) =>
        LET shares == resp.result.submeters
            total == OwnTotal(shares, Len(shares))
        IN  \A k \in DOMAIN shares :
               IF total > 0
               THEN shares[k].consumption_share
                        = DecimalDiv(Decimal(shares[k].consumption), Decimal(total))
               ELSE shares[k].consumption_share = Decimal(0)

\* C7: when the grand total of the entries' total_consumption is > 0, the
\* sum of the rounded costs differs from total_cost by at most one cent per
\* submeter entry.
C7_CostSumWithinRounding ==
    (IsDistribution /\ resp.result.status = 200) =>
        LET shares == resp.result.submeters
            n == Len(shares)
        IN  DecimalPositive(GrandTotal(shares, n)) =>
               Abs(CostTotal(shares, n) - resp.result.total_cost) <= n

\* C7 witness: two entries with a positive grand total whose rounded costs
\* do not add up to total_cost.
C7_Witness ==
    /\ IsDistribution
    /\ resp.result.status = 200
    /\ Len(resp.result.submeters) = 2
    /\ DecimalPositive(GrandTotal(resp.result.submeters, 2))
    /\ CostTotal(resp.result.submeters, 2) # resp.result.total_cost

\* C8: a distribution always returns a result; with a total submetered
\* consumption of 0 every consumption_share and unmetered_share is 0, and
\* with a grand total that is not > 0 every cost is 0.
C8_NoDivisionByZero ==
    IsDistribution =>
        /\ resp.result.status = 200
        /\ LET shares == resp.result.submeters
               n == Len(shares)
           IN  /\ OwnTotal(shares, n) = 0 =>
                     \A k \in 1..n :
                        /\ shares[k].consumption_share = Decimal(0)
                        /\ shares[k].unmetered_share = Decimal(0)
               /\ ~DecimalPositive(GrandTotal(shares, n)) =>
                     \A k \in 1..n : shares[k].cost = 0

\* C8 witness: a period with present main consumption in which the entries'
\* consumptions are not all zero but sum to 0, and a positive total_cost.
C8_Witness ==
    /\ IsDistribution
    /\ resp.result.status = 200
    /\ resp.result.total_cost > 0
    /\ resp.result.unmetered_consumption # None
    /\ resp.result.unmetered_consumption[1] > 0
    /\ Len(resp.result.submeters) = 2
    /\ resp.result.submeters[1].consumption # 0
    /\ OwnTotal(resp.result.submeters, 2) = 0
    /\ \A k \in 1..2 : resp.result.submeters[k].cost = 0

(***************************************************************************)
(* Claims about formula-based cost distribution, checked under             *)
(* SpecBilling.                                                            *)
(***************************************************************************)
IsDistributionV2 == resp.op = "distribute_costs_v2"

ActiveFormulasOf(p) ==
    {i \in Ids(formulas) : formulas[i].property_id = p /\ formulas[i].is_active}

\* the sum over the first n terms of coefficient * consumption, a name
\* missing from the map counting as 0
RECURSIVE TermSum(_, _, _)
TermSum(terms, map, n) ==
    IF n = 0 THEN Dec(0)
    ELSE DecAdd(TermSum(terms, map, n - 1),
                IF terms[n][1] \in DOMAIN map
                THEN Norm(terms[n][2].digits * map[terms[n][1]], Pow10(terms[n][2].places))
                ELSE Dec(0))

\* C9: a successful formula-based distribution has one share per active
\* formula of the property; its weighted_consumption is the sum over the
\* formula's terms of coefficient * consumption_map[meter_name], a name
\* missing from the map counting as 0, and its cost is total_cost *
\* weighted_consumption / main_meter_consumption rounded to cents.
C9_FormulaShares ==
    (IsDistributionV2 /\ resp.result.status = 200) =>
        LET r == resp.result
        IN  /\ {r.shares[k].formula_id : k \in DOMAIN r.shares}
                  = ActiveFormulasOf(r.property_id)
            /\ Len(r.shares) = Cardinality(ActiveFormulasOf(r.property_id))
            /\ \A k \in DOMAIN r.shares :
                  LET share == r.shares[k]
                      stored == formulas[share.formula_id].terms_json
                  IN  /\ DOMAIN share.terms = DOMAIN stored
                      /\ \A j \in DOMAIN stored :
                            /\ share.terms[j][1] = stored[j][1]
                            /\ share.terms[j][2].digits = stored[j][2][1]
                            /\ share.terms[j][2].places = stored[j][2][2]
                      /\ DecEq(share.weighted_consumption,
                               TermSum(share.terms, r.meter_consumptions, Len(share.terms)))
                      /\ share.cost =
                            Quantize(DecDiv(DecMul(Dec(r.total_cost),
                                                   share.weighted_consumption),
                                            Dec(r.main_meter_consumption[1])))

\* C9 witness: a share of a formula with a term naming no meter next to a
\* term whose meter consumed, with a positive cost.
C9_Witness ==
    /\ IsDistributionV2
    /\ resp.result.status = 200
    /\ \E k \in DOMAIN resp.result.shares :
          LET share == resp.result.shares[k]
          IN  /\ \E j \in DOMAIN share.terms :
                    share.terms[j][1] \notin DOMAIN resp.result.meter_consumptions
              /\ \E j \in DOMAIN share.terms :
                    /\ share.terms[j][1] \in DOMAIN resp.result.meter_consumptions
                    /\ resp.result.meter_consumptions[share.terms[j][1]] > 0
              /\ share.cost > 0
              /\ DecLt(Dec(0), share.weighted_consumption)

\* C10: a formula-based distribution for a property without an active
\* formula fails with status 400 and the detail "No active cost formulas
\* found for this property" and carries no result, whatever formulas were
\* created, updated or deleted and whatever readings exist.
C10_NoActiveFormulas ==
    (IsDistributionV2 /\ ActiveFormulasOf(resp.property_id) = {}) =>
        /\ resp.result.status = 400
        /\ resp.result.detail = "No active cost formulas found for this property"
        /\ DOMAIN resp.result = {"status", "detail"}

\* C10 witness: the property's only formulas are deactivated ones, the main
\* meter consumed in the period, and the distribution is refused.
C10_Witness ==
    /\ IsDistributionV2
    /\ \E i \in Ids(formulas) : formulas[i].property_id = resp.property_id
    /\ ActiveFormulasOf(resp.property_id) = {}
    /\ LET map == compute_consumption_map(resp.property_id, resp.start, resp.end, "asc")
       IN  /\ map.main_consumption # None
           /\ map.main_consumption[1] > 0
    /\ resp.result.status = 400


(***************************************************************************)
(* The main-consumption precondition of the formula-based distribution:    *)
(* one property without submeters, up to PreMaxBulks bulk submissions of   *)
(* either type (so that the main consumption of a period can be absent,    *)
(* zero, negative or positive), and formulas over the unmetered key.       *)
(***************************************************************************)
PreTimes == 0..PreMaxTime

PreValues == 0..PreMaxValue

PreTerms == {<<<<UNMETERED, c>>>> : c \in Coeffs}

NextPrecondition ==
    \/ Return
    \/ create_property
    \/ \E p \in 1..MaxProperties, t \in PreTimes, v \in PreValues, ty \in ReadingTypes,
          scan \in ScanOrders :
         create_bulk_readings_v2(p, t, v, << >>, ty, scan, PreMaxBulks)
    \/ \E p \in 1..MaxProperties, name \in FormulaNames, terms \in PreTerms :
         create_formula(p, name, terms)
    \/ \E id \in 1..MaxFormulas : delete_formula(id)
    \/ \E p \in 1..MaxProperties, s \in PreTimes, e \in PreTimes, c \in Costs,
          scan \in ScanOrders :
         DistributeCostsV2(p, s, e, c, scan)

SpecPrecondition == Init /\ [][NextPrecondition]_vars

\* the main-meter consumptions the stored readings give for the period of
\* the last distribution (one per order in which equal rows can be scanned)
MainConsumptions ==
    {compute_consumption_map(resp.property_id, resp.start, resp.end, scan).main_consumption :
        scan \in ScanOrders}

\* C11: a formula-based distribution succeeds only with a main-meter
\* consumption that is present and > 0; with active formulas and a main
\* consumption that is None, 0 or negative it fails with status 400 and
\* carries no shares, so every returned share has a positive divisor.
C11_MainConsumptionPositive ==
    IsDistributionV2 =>
        /\ resp.result.status = 200 =>
              /\ resp.result.main_meter_consumption \in MainConsumptions
              /\ resp.result.main_meter_consumption # None
              /\ resp.result.main_meter_consumption[1] > 0
        /\ (/\ ActiveFormulasOf(resp.property_id) # {}
            /\ \A m \in MainConsumptions : m = None \/ m[1] <= 0) =>
              /\ resp.result.status = 400
              /\ resp.result.detail
                    = "Main meter consumption is zero or unavailable for this period"
              /\ DOMAIN resp.result = {"status", "detail"}

\* C11 witness: a property with an active formula whose main-meter
\* consumption for the period is negative, and the distribution is refused.
C11_Witness ==
    /\ IsDistributionV2
    /\ ActiveFormulasOf(resp.property_id) # {}
    /\ \A m \in MainConsumptions : m # None /\ m[1] < 0
    /\ resp.result.status = 400

\* C12: formula shares are independent of each other: the share a
\* successful distribution reports for a formula is the share computed for
\* that formula alone from the period's consumption map and total cost, so
\* it depends on the formula's own row only and no creation, update,
\* deactivation or reactivation of another formula changes it.
C12_SharesIndependent ==
    (IsDistributionV2 /\ resp.result.status = 200) =>
        \A k \in DOMAIN resp.result.shares :
           resp.result.shares[k]
              = FormulaShares(<<resp.result.shares[k].formula_id>>,
                              resp.result.meter_consumptions,
                              resp.result.total_cost,
                              resp.result.main_meter_consumption[1])[1]

\* C12 witness: a successful distribution with two shares of different
\* terms and different costs.
C12_Witness ==
    /\ IsDistributionV2
    /\ resp.result.status = 200
    /\ Len(resp.result.shares) = 2
    /\ resp.result.shares[1].terms # resp.result.shares[2].terms
    /\ resp.result.shares[1].cost # resp.result.shares[2].cost
    /\ resp.result.shares[1].cost > 0


\* C13 (as claimed): in every state reachable by create_formula,
\* update_formula and delete_formula no two active formulas of the same
\* property have the same name.
C13_UniqueWhileActive ==
    \A i \in Ids(formulas), j \in Ids(formulas) :
       (/\ i # j
        /\ formulas[i].property_id = formulas[j].property_id
        /\ formulas[i].is_active
        /\ formulas[j].is_active) => formulas[i].name # formulas[j].name

(***************************************************************************)
(* The formula store: one property without submeters, one bulk submission, *)
(* formulas created, updated and deleted, read singly and as a list, and   *)
(* the v2 distribution.                                                    *)
(***************************************************************************)
FormTimes == 0..FormMaxTime

FormValues == 0..FormMaxValue

FormTerms == PreTerms \cup {<<<<"x", c>>, <<UNMETERED, c>>>> : c \in Coeffs}

NextFormulas ==
    \/ Return
    \/ create_property
    \/ \E p \in 1..MaxProperties, t \in FormTimes, v \in FormValues, ty \in ReadingTypes,
          scan \in ScanOrders :
         create_bulk_readings_v2(p, t, v, << >>, ty, scan, FormMaxBulks)
    \/ \E p \in 1..MaxProperties, name \in FormulaNames, terms \in FormTerms :
         create_formula(p, name, terms)
    \/ \E id \in 1..MaxFormulas, name \in Optional(FormulaNames),
          terms \in Optional(FormTerms), is_active \in Optional(BOOLEAN) :
         update_formula(id, name, terms, is_active)
    \/ \E id \in 1..MaxFormulas : delete_formula(id)
    \/ \E id \in 1..MaxFormulas : GetFormula(id)
    \/ \E p \in 1..MaxProperties, active_only \in BOOLEAN, scan \in ScanOrders :
         ListFormulas(p, active_only, scan)
    \/ \E p \in 1..MaxProperties, s \in FormTimes, e \in FormTimes, c \in Costs,
          scan \in ScanOrders :
         DistributeCostsV2(p, s, e, c, scan)

SpecFormulas == Init /\ [][NextFormulas]_vars

\* a step in which delete_formula found its formula
IsDeleteStep == resp'.op = "delete_formula" /\ resp'.status = 204

\* C14: deleting a formula is a soft delete: the step changes only the
\* formula's is_active, to false, and leaves its id, property, name and
\* terms and every other formula unchanged; no step removes a formula from
\* the store; get_formula returns a stored formula whether active or not
\* (with its is_active), and neither the default list nor the shares of a
\* distribution contain an inactive formula.
C14_SoftDelete ==
    /\ [][/\ Len(formulas') >= Len(formulas)
          /\ \A i \in Ids(formulas) : formulas'[i].property_id = formulas[i].property_id
          /\ IsDeleteStep =>
                /\ resp'.formula_id \in Ids(formulas)
                /\ DOMAIN formulas' = DOMAIN formulas
                /\ \A i \in Ids(formulas) :
                      IF i = resp'.formula_id
                      THEN /\ ~formulas'[i].is_active
                           /\ formulas'[i].property_id = formulas[i].property_id
                           /\ formulas'[i].name = formulas[i].name
                           /\ formulas'[i].terms_json = formulas[i].terms_json
                      ELSE formulas'[i] = formulas[i]]_vars
    /\ [](resp.op = "get_formula" =>
             IF resp.formula_id \in Ids(formulas)
             THEN /\ resp.status = 200
                  /\ resp.result.id = resp.formula_id
                  /\ resp.result.is_active = formulas[resp.formula_id].is_active
                  /\ resp.result.name = formulas[resp.formula_id].name
             ELSE resp.status = 404)
    /\ [](resp.op = "list_formulas" =>
             {resp.result[k].id : k \in DOMAIN resp.result}
                = {i \in Ids(formulas) : /\ formulas[i].property_id = resp.property_id
                                         /\ resp.active_only => formulas[i].is_active})
    /\ []((IsDistributionV2 /\ resp.result.status = 200) =>
             \A k \in DOMAIN resp.result.shares :
                formulas[resp.result.shares[k].formula_id].is_active)

\* C14 witness: delete_formula has deactivated one of two formulas of a
\* property; the other is still active.
C14_Witness ==
    /\ resp.op = "delete_formula"
    /\ resp.status = 204
    /\ ~formulas[resp.formula_id].is_active
    /\ \E g \in Ids(formulas) :
          /\ g # resp.formula_id
          /\ formulas[g].property_id = formulas[resp.formula_id].property_id
          /\ formulas[g].is_active

(***************************************************************************)
(* Validated formula requests: formulas created and updated through the    *)
(* routes, with term mappings that may be empty or carry blank keys.       *)
(***************************************************************************)
ValKeySeq == <<"a", "", " ", " a">>

ValTerms == DictsOver(ValKeySeq, Coeffs)

NextValidation ==
    \/ Return
    \/ \E p \in 1..MaxProperties, name \in FormulaNames, terms \in ValTerms :
         create_formula_route(p, name, terms)
    \/ \E id \in 1..MaxFormulas, name \in Optional(FormulaNames),
          terms \in Optional(ValTerms), is_active \in Optional(BOOLEAN) :
         update_formula_route(id, name, terms, is_active)

SpecValidation == Init /\ [][NextValidation]_vars

\* the keys that are empty or consist of whitespace only
BlankKeys == {"", " "}

\* C15: every stored formula has a non-empty term mapping without blank
\* keys, and a rejected create or update leaves the stored formulas
\* unchanged.
C15_TermsValid ==
    /\ [](\A i \in Ids(formulas) :
             /\ formulas[i].terms_json # << >>
             /\ \A k \in DOMAIN formulas[i].terms_json :
                   formulas[i].terms_json[k][1] \notin BlankKeys)
    /\ [][resp'.op \in {"create_formula", "update_formula"} /\ resp'.status >= 400
             => formulas' = formulas]_vars

\* C15 witness: a request was rejected by validation while a formula with
\* a key that only strips to a meter name is stored.
C15_Witness ==
    /\ resp.op = "update_formula"
    /\ resp.status = 422
    /\ \E i \in Ids(formulas) :
          \E k \in DOMAIN formulas[i].terms_json : formulas[i].terms_json[k][1] = " a"

(***************************************************************************)
(* The meter registry (src/app/services/meter.py and the meter pages of    *)
(* src/app/web/routes/meters.py).  The store is SQLite without the         *)
(* foreign_keys pragma (src/app/core/database.py): a meter row may name a  *)
(* property that has no row.                                               *)
(***************************************************************************)
RegMaxMeters == 3

RegMaxReadings == 1

RegMaxTime == 0

RegMaxValue == 0

\* An integer primary key is the rowid: an insert takes the largest id in
\* use plus one, so the id of a deleted last row is free again.
RECURSIVE Trim(_)
Trim(table) ==
    IF table # << >> /\ table[Len(table)] = Deleted
    THEN Trim(SubSeq(table, 1, Len(table) - 1))
    ELSE table

\* db.delete(row); db.commit()
DeleteRow(table, id) == Trim([table EXCEPT ![id] = Deleted])

get_meter(meter_id) == IF meter_id \in Ids(meters) THEN Some(meter_id) ELSE None

create_main_meter(p) ==
    /\ Idle
    /\ Len(meters) < RegMaxMeters
    /\ LET existing == {i \in Ids(meters) :
                          meters[i].property_id = p /\ meters[i].meter_type = MAIN_METER}
       IN  IF existing # {}
           THEN /\ resp' = [op |-> "create_main_meter", status |-> 400]
                /\ UNCHANGED meters
           ELSE /\ meters' = Append(meters,
                                [property_id |-> p,
                                 meter_type |-> MAIN_METER,
                                 sub_meter_kind |-> None,
                                 name |-> None,
                                 is_active |-> TRUE])
                /\ resp' = [op |-> "create_main_meter", status |-> 201]
    /\ UNCHANGED <<properties, readings, formulas>>

\* for field, value in update_data.items(): setattr(row, field, value)
RECURSIVE SetAttrs(_, _)
SetAttrs(row, update_data) ==
    IF update_data = << >> THEN row
    ELSE SetAttrs([row EXCEPT ![Head(update_data)[1]] = Head(update_data)[2]],
                  Tail(update_data))

\* update_data is model_dump(exclude_unset=True) of a MeterUpdate, as a
\* sequence of <<field, value>> pairs.  The location of a meter is not
\* modelled: an update of the location alone is the empty update_data.
update_meter(meter_id, update_data) ==
    /\ Idle
    /\ IF get_meter(meter_id) = None
       THEN /\ resp' = [op |-> "update_meter", status |-> 404]
            /\ UNCHANGED meters
       ELSE /\ meters' = [meters EXCEPT ![meter_id] = SetAttrs(@, update_data)]
            /\ resp' = [op |-> "update_meter", status |-> 200]
    /\ UNCHANGED <<properties, readings, formulas>>

\* Meter.readings is a relationship without a delete cascade and
\* MeterReading.meter_id is NOT NULL: deleting a meter that has readings
\* makes the session set their meter_id to NULL at the flush, the store
\* refuses it (IntegrityError) and the request fails with nothing deleted.
ReadingsOfMeter(meter_id) == {r \in Ids(readings) : readings[r].meter_id = meter_id}

\* POST /meters/{meter_id}/delete of a logged-in user
delete_meter(meter_id) ==
    /\ Idle
    /\ IF get_meter(meter_id) = None
       THEN /\ resp' = [op |-> "delete_meter", meter_id |-> meter_id, status |-> 404]
            /\ UNCHANGED meters
       ELSE IF meters[meter_id].meter_type = MAIN_METER
       THEN /\ resp' = [op |-> "delete_meter", meter_id |-> meter_id, status |-> 303,
                        flash |-> "Cannot delete main meter."]
            /\ UNCHANGED meters
       ELSE IF ReadingsOfMeter(meter_id) # {}
       THEN /\ resp' = [op |-> "delete_meter", meter_id |-> meter_id, status |-> 500]
            /\ UNCHANGED meters
       ELSE /\ meters' = DeleteRow(meters, meter_id)
            /\ resp' = [op |-> "delete_meter", meter_id |-> meter_id, status |-> 303,
                        flash |-> "Meter deleted successfully!"]
    /\ UNCHANGED <<properties, readings, formulas>>

RegTimes == 0..RegMaxTime

RegValues == 0..RegMaxValue

MeterUpdates ==
    {<< >>} \cup {<<<<"name", nm>>>> : nm \in Optional(SubmeterNames)}
            \cup {<<<<"is_active", b>>>> : b \in BOOLEAN}

NextRegistry ==
    \/ Return
    \/ create_property
    \/ \E p \in 1..MaxProperties : create_main_meter(p)
    \/ \E p \in 1..MaxProperties, nm \in SubmeterNames : create_submeter(p, nm)
    \/ \E m \in 1..RegMaxMeters, u \in MeterUpdates : update_meter(m, u)
    \/ \E m \in 1..RegMaxMeters, t \in RegTimes, v \in RegValues :
         create_reading(m, t, v, RegMaxReadings)
    \/ \E m \in 1..RegMaxMeters : delete_meter(m)

SpecRegistry == Init /\ [][NextRegistry]_vars

(***************************************************************************)
(* C16: submeter names are unique within a property: in every state        *)
(* reachable by create_property, create_submeter and update_meter, no two  *)
(* meters of the same property have the same name.                         *)
(***************************************************************************)
C16_SubmeterNamesUnique ==
    \A i, j \in Ids(meters) :
        /\ i # j
        /\ meters[i].property_id = meters[j].property_id
        /\ meters[i].name # None
        => meters[i].name # meters[j].name

(***************************************************************************)
(* C17: every property has exactly one main meter in every state reachable *)
(* by create_property, create_main_meter, create_submeter, update_meter    *)
(* and the delete-meter page.                                              *)
(***************************************************************************)
MainMetersOf(p) ==
    {i \in Ids(meters) : meters[i].property_id = p /\ meters[i].meter_type = MAIN_METER}

C17_ExactlyOneMainMeter ==
    \A p \in Ids(properties) : Cardinality(MainMetersOf(p)) = 1

(***************************************************************************)
(* C20: deleting a meter cascades to its readings: a request to delete a   *)
(* submeter removes the meter together with its readings, so that every    *)
(* stored reading belongs to an existing meter.                            *)
(***************************************************************************)
C20_DeleteCascades ==
    /\ \A r \in Ids(readings) : readings[r].meter_id \in Ids(meters)
    /\ /\ resp.op = "delete_meter"
       /\ resp.status # 404
       /\ resp.status = 303 => resp.flash # "Cannot delete main meter."
       => /\ resp.meter_id \notin Ids(meters)
          /\ ReadingsOfMeter(resp.meter_id) = {}

(***************************************************************************)
(* Recording single readings through the v2 service                        *)
(* (src/app/services/v2/readings.py) on the meters of the registry.        *)
(***************************************************************************)
RecMaxReadings == 2

RecMaxMeters == 3

RecMaxTime == 0

RecMaxValue == 1

RecTimes == 0..RecMaxTime

RecValues == 0..RecMaxValue

NextRecording ==
    \/ Return
    \/ create_property
    \/ \E p \in 1..MaxProperties, nm \in SubmeterNames : create_submeter(p, nm)
    \/ \E m \in 1..RecMaxMeters, u \in MeterUpdates : update_meter(m, u)
    \/ \E m \in 1..RecMaxMeters, t \in RecTimes, v \in RecValues, ty \in ReadingTypes :
         create_reading_v2(m, t, v, ty, RecMaxReadings)

SpecRecording == Init /\ [][NextRecording]_vars

(***************************************************************************)
(* C19: virtual meters never have readings recorded against them:          *)
(* create_reading is accepted only for an existing, active meter that is   *)
(* not virtual, so no stored reading belongs to a virtual meter.           *)
(***************************************************************************)
C19_NoReadingOnVirtual ==
    /\ \A r \in Ids(readings) :
           meters[readings[r].meter_id].sub_meter_kind # Some(VIRTUAL)
    /\ resp.op = "create_reading" /\ resp.status < 400
       => /\ resp.meter_id \in Ids(meters)
          /\ meters[resp.meter_id].is_active
          /\ meters[resp.meter_id].sub_meter_kind # Some(VIRTUAL)

(***************************************************************************)
(* The validating reading service (src/app/services/                       *)
(* meter_reading_service.py) with the meters of meter_service.py and       *)
(* property_service.py.  Its tables are the meters and meter_readings of   *)
(* src/app/db/models: a meter has a meter_code and one of three types, a   *)
(* reading has a reading_value.  Primary keys are UUIDs: the id of a       *)
(* deleted row is never used again.                                        *)
(***************************************************************************)
PHYSICAL_MAIN == "physical_main"

PHYSICAL_SUBMETER == "physical_submeter"

LedgerMaxProperties == 1

LedgerMaxReadings == 3

LedgerMaxTime == 2

LedgerMaxValue == 1

\* datetime.now(): the requests of a run are made at this time
LedgerNow == 1

LedgerMeter(p, code, type) ==
    [property_id |-> p, meter_code |-> code, meter_type |-> type, is_active |-> TRUE]

\* property_service.create_property: the property and its default meters
create_property_service ==
    /\ Idle
    /\ Len(properties) < LedgerMaxProperties
    /\ properties' = Append(properties, [is_active |-> TRUE])
    /\ LET p == Len(properties) + 1
       IN  meters' = meters \o <<LedgerMeter(p, "total", PHYSICAL_MAIN),
                                 LedgerMeter(p, "gg", PHYSICAL_SUBMETER),
                                 LedgerMeter(p, "sg", PHYSICAL_SUBMETER),
                                 LedgerMeter(p, "unmetered", VIRTUAL)>>
    /\ resp' = [op |-> "create_property", status |-> 201]
    /\ UNCHANGED <<readings, formulas>>

deactivate_meter(meter_id) ==
    /\ Idle
    /\ IF meter_id \notin Ids(meters)
       THEN /\ resp' = [op |-> "deactivate_meter", status |-> 200, result |-> FALSE]
            /\ UNCHANGED meters
       ELSE /\ meters' = [meters EXCEPT ![meter_id].is_active = FALSE]
            /\ resp' = [op |-> "deactivate_meter", status |-> 200, result |-> TRUE]
    /\ UNCHANGED <<properties, readings, formulas>>

LedgerReading(m, t, v) ==
    [meter_id |-> m, reading_timestamp |-> t, reading_value |-> v]

\* select ... where meter_id = m order by reading_timestamp desc limit 1:
\* a reading of the meter with the greatest timestamp, None if none; the
\* order among readings of equal timestamp is the store's
latest_reading(m, scan) ==
    First({r \in ReadingsOfMeter(m) :
             \A o \in ReadingsOfMeter(m) :
                 readings[o].reading_timestamp <= readings[r].reading_timestamp}, scan)

create_reading_service(m, t, v, scan) ==
    /\ Idle
    /\ Len(readings) < LedgerMaxReadings
    /\ IF m \notin Ids(meters)
       THEN /\ resp' = [op |-> "create_reading", meter_id |-> m, status |-> 404]
            /\ UNCHANGED readings
       ELSE IF ~meters[m].is_active \/ meters[m].meter_type = VIRTUAL \/ t > LedgerNow
       THEN /\ resp' = [op |-> "create_reading", meter_id |-> m, status |-> 400]
            /\ UNCHANGED readings
       ELSE LET latest == latest_reading(m, scan)
            IN  IF latest # None /\ v < readings[latest[1]].reading_value
                THEN /\ resp' = [op |-> "create_reading", meter_id |-> m, status |-> 400]
                     /\ UNCHANGED readings
                ELSE /\ readings' = Append(readings, LedgerReading(m, t, v))
                     /\ resp' = [op |-> "create_reading", meter_id |-> m, status |-> 201]
    /\ UNCHANGED <<properties, meters, formulas>>

get_reading(reading_id) == IF reading_id \in Ids(readings) THEN Some(reading_id) ELSE None

\* the value of a key of update_data, None if the key is absent
RECURSIVE Lookup(_, _)
Lookup(update_data, field) ==
    IF update_data = << >> THEN None
    ELSE IF Head(update_data)[1] = field THEN Some(Head(update_data)[2])
    ELSE Lookup(Tail(update_data), field)

\* the loop over the other readings of the meter: does one of them conflict
\* with the new value at the new timestamp
Conflicts(reading_id, new_value, new_timestamp) ==
    \E o \in ReadingsOfMeter(readings[reading_id].meter_id) \ {reading_id} :
        \/ /\ readings[o].reading_timestamp < new_timestamp
           /\ readings[o].reading_value > new_value
        \/ /\ readings[o].reading_timestamp > new_timestamp
           /\ readings[o].reading_value < new_value

\* update_data is model_dump(exclude_unset=True) of the update, as a
\* sequence of <<field, value>> pairs over reading_timestamp and
\* reading_value
update_reading(reading_id, update_data) ==
    /\ Idle
    /\ LET new_timestamp == Lookup(update_data, "reading_timestamp")
           new_value == Lookup(update_data, "reading_value")
       IN  IF get_reading(reading_id) = None
           THEN /\ resp' = [op |-> "update_reading", status |-> 200, result |-> None]
                /\ UNCHANGED readings
           ELSE IF new_timestamp # None /\ new_timestamp[1] > LedgerNow
           THEN /\ resp' = [op |-> "update_reading", status |-> 400]
                /\ UNCHANGED readings
           ELSE IF /\ new_value # None
                   /\ Conflicts(reading_id, new_value[1],
                                IF new_timestamp # None THEN new_timestamp[1]
                                ELSE readings[reading_id].reading_timestamp)
           THEN /\ resp' = [op |-> "update_reading", status |-> 400]
                /\ UNCHANGED readings
           ELSE /\ readings' = [readings EXCEPT ![reading_id] = SetAttrs(@, update_data)]
                /\ resp' = [op |-> "update_reading", status |-> 200,
                            result |-> Some(reading_id)]
    /\ UNCHANGED <<properties, meters, formulas>>

delete_reading(reading_id) ==
    /\ Idle
    /\ IF get_reading(reading_id) = None
       THEN /\ resp' = [op |-> "delete_reading", status |-> 200, result |-> FALSE]
            /\ UNCHANGED readings
       ELSE /\ readings' = [readings EXCEPT ![reading_id] = Deleted]
            /\ resp' = [op |-> "delete_reading", status |-> 200, result |-> TRUE]
    /\ UNCHANGED <<properties, meters, formulas>>

LedgerTimes == 0..LedgerMaxTime

LedgerValues == 0..LedgerMaxValue

LedgerMaxMeters == 5

ReadingUpdates ==
    {<< >>}
    \cup {<<<<"reading_timestamp", t>>>> : t \in LedgerTimes}
    \cup {<<<<"reading_value", v>>>> : v \in LedgerValues}
    \cup {<<<<"reading_timestamp", t>>, <<"reading_value", v>>>> :
            t \in LedgerTimes, v \in LedgerValues}

NextLedger ==
    \/ Return
    \/ create_property_service
    \/ \E m \in 1..LedgerMaxMeters : deactivate_meter(m)
    \/ \E m \in 1..LedgerMaxMeters, t \in LedgerTimes, v \in LedgerValues, scan \in ScanOrders :
         create_reading_service(m, t, v, scan)
    \/ \E r \in 1..LedgerMaxReadings, u \in ReadingUpdates : update_reading(r, u)
    \/ \E r \in 1..LedgerMaxReadings : delete_reading(r)

SpecLedger == Init /\ [][NextLedger]_vars

(***************************************************************************)
(* C18: non-monotonic readings are rejected before any mutation: after any *)
(* sequence of create_reading, update_reading and delete_reading calls of  *)
(* the validating service, each meter's stored readings ordered by         *)
(* reading_timestamp have non-decreasing reading_value.                    *)
(***************************************************************************)
C18_Monotonic ==
    \A r, o \in Ids(readings) :
        /\ readings[r].meter_id = readings[o].meter_id
        /\ readings[r].reading_timestamp < readings[o].reading_timestamp
        => readings[r].reading_value <= readings[o].reading_value

(***************************************************************************)
(* Virtual readings of the validating service                              *)
(* (meter_reading_service.calculate_virtual_readings).                     *)
(***************************************************************************)
\* the source meters of a property, keyed by meter_code
get_virtual_meter_sources(p) ==
    {m \in Ids(meters) :
       /\ meters[m].property_id = p
       /\ meters[m].meter_code \in {"total", "gg", "sg"}
       /\ meters[m].meter_type # VIRTUAL}

SourceMeter(p, code) ==
    CHOOSE m \in get_virtual_meter_sources(p) : meters[m].meter_code = code

\* the readings of a meter within the optional dates
get_readings_by_meter(m, start_date, end_date) ==
    {r \in ReadingsOfMeter(m) :
       /\ start_date # None => readings[r].reading_timestamp >= start_date[1]
       /\ end_date # None => readings[r].reading_timestamp <= end_date[1]}

\* {r.reading_timestamp: r.reading_value for r in rows}: of the rows of one
\* timestamp the dict keeps one, by the order in which the store lists them
TimestampsOf(rows) == {readings[r].reading_timestamp : r \in rows}

ValueAt(rows, t, scan) ==
    readings[First({r \in rows : readings[r].reading_timestamp = t}, scan)[1]].reading_value

RECURSIVE VirtualRows(_, _, _, _, _)
VirtualRows(timestamps, total, gg, sg, scan) ==
    IF timestamps = << >> THEN << >>
    ELSE LET timestamp == Head(timestamps)
             unmetered_value == ValueAt(total, timestamp, scan)
                                - ValueAt(gg, timestamp, scan)
                                - ValueAt(sg, timestamp, scan)
         IN  <<[reading_timestamp |-> timestamp,
                reading_value |-> unmetered_value,
                calculated |-> TRUE]>>
             \o VirtualRows(Tail(timestamps), total, gg, sg, scan)

calculate_virtual_readings(p, start_date, end_date, scan) ==
    LET source_meters == get_virtual_meter_sources(p)
    IN  IF Cardinality({meters[m].meter_code : m \in source_meters}) # 3
        THEN [status |-> 400]
        ELSE LET total == get_readings_by_meter(SourceMeter(p, "total"), start_date, end_date)
                 gg == get_readings_by_meter(SourceMeter(p, "gg"), start_date, end_date)
                 sg == get_readings_by_meter(SourceMeter(p, "sg"), start_date, end_date)
                 common_timestamps ==
                     TimestampsOf(total) \cap TimestampsOf(gg) \cap TimestampsOf(sg)
             IN  [status |-> 200,
                  rows |-> VirtualRows(Ordered(common_timestamps, "desc"),
                                       total, gg, sg, scan)]

CalculateVirtualReadings(p, start_date, end_date, scan) ==
    /\ Idle
    /\ resp' = [op |-> "calculate_virtual_readings", property_id |-> p,
                result |-> calculate_virtual_readings(p, start_date, end_date, scan)]
    /\ UNCHANGED <<properties, meters, readings, formulas>>

NextVirtual ==
    \/ Return
    \/ create_property_service
    \/ \E m \in 1..LedgerMaxMeters, t \in LedgerTimes, v \in LedgerValues, scan \in ScanOrders :
         create_reading_service(m, t, v, scan)
    \/ \E p \in 1..LedgerMaxProperties, start_date, end_date \in Optional(LedgerTimes),
          scan \in ScanOrders :
         CalculateVirtualReadings(p, start_date, end_date, scan)

SpecVirtual == Init /\ [][NextVirtual]_vars

(***************************************************************************)
(* C21: unmetered consumption is main minus the sum of the physical        *)
(* submeters, clamped at zero, in every operation that reports it: no      *)
(* consumption summary, consumption map or list of virtual readings        *)
(* reports a negative unmetered value.                                     *)
(***************************************************************************)
C21_UnmeteredNeverNegative ==
    /\ resp.op \in {"get_property_consumption", "get_property_consumption_v2"}
       => \/ resp.result.unmetered_consumption = None
          \/ resp.result.unmetered_consumption[1] >= 0
    /\ resp.op = "compute_consumption_map"
       => resp.result.unmetered = None \/ resp.result.unmetered[1] >= 0
    /\ resp.op = "calculate_virtual_readings" /\ resp.result.status = 200
       => \A k \in DOMAIN resp.result.rows : resp.result.rows[k].reading_value >= 0

SyntheticEntries(summary) ==
    {k \in DOMAIN summary.submeters :
       summary.submeters[k].name = UNMETERED /\ summary.submeters[k].is_virtual}

RECURSIVE SumConsumption(_, _)
SumConsumption(entries, ks) ==
    IF ks = {} THEN 0
    ELSE LET k == CHOOSE x \in ks : TRUE
         IN  entries[k].consumption + SumConsumption(entries, ks \ {k})

C23_SyntheticEntry ==
    resp.op = "get_property_consumption_v2" =>
        LET summary == resp.result
            synthetic == SyntheticEntries(summary)
        IN  /\ synthetic # {} <=> /\ summary.unmetered_consumption # None
                                  /\ summary.unmetered_consumption[1] > 0
            /\ Cardinality(synthetic) <= 1
            /\ \A k \in synthetic :
                   summary.submeters[k].consumption = summary.unmetered_consumption[1]
            /\ summary.total_submetered_consumption =
                   SumConsumption(summary.submeters, DOMAIN summary.submeters \ synthetic)
            /\ \A k \in DOMAIN summary.submeters \ synthetic : ~summary.submeters[k].is_virtual

\* a summary with a positive residual beside a submeter that has consumption
C23_Witness ==
    /\ resp.op = "get_property_consumption_v2"
    /\ SyntheticEntries(resp.result) # {}
    /\ resp.result.total_submetered_consumption > 0

(***************************************************************************)
(* The consumption map of a property whose submeters may carry any name,   *)
(* the reserved key included: create_submeter accepts every name.          *)
(***************************************************************************)
MapMaxReadings == 3

MapMaxTime == 1

MapMaxValue == 1

MapTimes == 0..MapMaxTime

MapValues == 0..MapMaxValue

MapSubmeterNames == {"a", UNMETERED}

NextMap ==
    \/ Return
    \/ create_property
    \/ \E p \in 1..MaxProperties, nm \in MapSubmeterNames : create_submeter(p, nm)
    \/ \E m \in 1..(MaxProperties + MaxSubmeters), t \in MapTimes, v \in MapValues,
          ty \in ReadingTypes :
         create_reading_v2(m, t, v, ty, MapMaxReadings)
    \/ \E p \in 1..MaxProperties, s \in MapTimes, e \in MapTimes, scan \in ScanOrders :
         ComputeConsumptionMap(p, s, e, scan)

SpecMap == Init /\ [][NextMap]_vars

(***************************************************************************)
(* C24: in the name-to-consumption map used by formulas, the reserved key  *)
(* _unmetered is present if and only if unmetered consumption is not       *)
(* absent, and it maps to the inferred unmetered consumption, never to the *)
(* consumption of a real meter, also when a submeter of the property is    *)
(* itself named _unmetered.                                                *)
(***************************************************************************)
C24_ReservedKey ==
    resp.op = "compute_consumption_map" =>
        /\ UNMETERED \in DOMAIN resp.result.consumptions <=> resp.result.unmetered # None
        /\ UNMETERED \in DOMAIN resp.result.consumptions
           => resp.result.consumptions[UNMETERED] = resp.result.unmetered[1]

(***************************************************************************)
(* Point-in-time reading summaries and the latest readings of a property   *)
(* (get_property_reading_summary and get_latest_readings_for_property of   *)
(* src/app/services/meter_reading.py and src/app/services/v2/readings.py). *)
(***************************************************************************)
\* db.query(Meter).filter(Meter.property_id == p).all(), in the store's order
get_meters_for_property(p, scan) ==
    Ordered({m \in Ids(meters) : meters[m].property_id = p}, scan)

\* [m for m in meters if m.meter_type == type]
RECURSIVE OfType(_, _)
OfType(ms, type) ==
    IF ms = << >> THEN << >>
    ELSE (IF meters[Head(ms)].meter_type = type THEN <<Head(ms)>> ELSE << >>)
         \o OfType(Tail(ms), type)

\* the loop over the submeters: the values and the entries of those that
\* have a reading at the timestamp
RECURSIVE SubmeterReadings(_, _, _)
SubmeterReadings(subs, t, scan) ==
    IF subs = << >> THEN [values |-> << >>, entries |-> << >>]
    ELSE LET rest == SubmeterReadings(SubSeq(subs, 1, Len(subs) - 1), t, scan)
             submeter == subs[Len(subs)]
             value == get_reading_value_at_timestamp(submeter, t, scan)
         IN  IF ~IsNone(value)
             THEN [values |-> Append(rest.values, value[1]),
                   entries |-> Append(rest.entries,
                                  [name |-> NameOr(meters[submeter].name, ""),
                                   meter_id |-> submeter,
                                   value |-> value[1]])]
             ELSE rest

\* The v1 and the v2 summary differ in the response schema alone (the v2
\* entries carry the meter_id, which the v1 schema drops) and in the
\* unmetered function they call.
get_property_reading_summary(p, t, scan) ==
    LET ms == get_meters_for_property(p, scan)
        mains == OfType(ms, MAIN_METER)
        main_value ==
            IF mains # << >> THEN get_reading_value_at_timestamp(mains[1], t, scan)
            ELSE None
        loop == SubmeterReadings(OfType(ms, SUB_METER), t, scan)
    IN  [property_id |-> p,
         reading_timestamp |-> t,
         main_meter |-> main_value,
         submeters |-> loop.entries,
         unmetered |-> compute_unmetered_value(main_value, loop.values)]

get_property_reading_summary_v2(p, t, scan) ==
    LET ms == get_meters_for_property(p, scan)
        mains == OfType(ms, MAIN_METER)
        main_value ==
            IF mains # << >> THEN get_reading_value_at_timestamp(mains[1], t, scan)
            ELSE None
        loop == SubmeterReadings(OfType(ms, SUB_METER), t, scan)
    IN  [property_id |-> p,
         reading_timestamp |-> t,
         main_meter |-> main_value,
         submeters |-> loop.entries,
         unmetered |-> _compute_unmetered(main_value, loop.values)]

\* mutant of LatestReading: the oldest reading is taken
LatestReading_oldest(meter_ids, scan) ==
    First({r \in Ids(readings) :
             /\ readings[r].meter_id \in meter_ids
             /\ \A o \in Ids(readings) :
                    readings[o].meter_id \in meter_ids
                    => readings[o].reading_timestamp >= readings[r].reading_timestamp},
          scan)

\* query(MeterReading).filter(meter_id.in_(meter_ids))
\*     .order_by(reading_timestamp.desc()).first()
LatestReading(meter_ids, scan) ==
    First({r \in Ids(readings) :
             /\ readings[r].meter_id \in meter_ids
             /\ \A o \in Ids(readings) :
                    readings[o].meter_id \in meter_ids
                    => readings[o].reading_timestamp <= readings[r].reading_timestamp},
          scan)

get_latest_readings_for_property(p, scan) ==
    LET meter_ids == {m \in Ids(meters) : meters[m].property_id = p}
        latest == LatestReading(meter_ids, scan)
    IN  IF meter_ids = {} THEN None
        ELSE IF IsNone(latest) THEN None
        ELSE Some(get_property_reading_summary(
                      p, readings[latest[1]].reading_timestamp, scan))

get_latest_readings_for_property_v2(p, scan) ==
    LET meter_ids == {m \in Ids(meters) : meters[m].property_id = p}
        latest == LatestReading(meter_ids, scan)
    IN  IF meter_ids = {} THEN None
        ELSE IF IsNone(latest) THEN None
        ELSE Some(get_property_reading_summary_v2(
                      p, readings[latest[1]].reading_timestamp, scan))

GetPropertyReadingSummary(p, t, scan) ==
    /\ Idle
    /\ \/ resp' = [op |-> "get_property_reading_summary",
                   result |-> get_property_reading_summary(p, t, scan)]
       \/ resp' = [op |-> "get_property_reading_summary_v2",
                   result |-> get_property_reading_summary_v2(p, t, scan)]
    /\ UNCHANGED <<properties, meters, readings, formulas>>

GetLatestReadingsForProperty(p, scan) ==
    /\ Idle
    /\ \/ resp' = [op |-> "get_latest_readings_for_property", property_id |-> p,
                   result |-> get_latest_readings_for_property(p, scan)]
       \/ resp' = [op |-> "get_latest_readings_for_property_v2", property_id |-> p,
                   result |-> get_latest_readings_for_property_v2(p, scan)]
    /\ UNCHANGED <<properties, meters, readings, formulas>>

LatestMaxReadings == 3

LatestMaxTime == 1

LatestMaxValue == 1

LatestTimes == 0..LatestMaxTime

LatestValues == (-LatestMaxValue)..LatestMaxValue

NextLatest ==
    \/ Return
    \/ create_property
    \/ \E p \in 1..MaxProperties, nm \in SubmeterNames : create_submeter(p, nm)
    \/ \E m \in 1..(MaxProperties + MaxSubmeters), t \in LatestTimes, v \in LatestValues :
         create_reading(m, t, v, LatestMaxReadings)
    \/ \E p \in 1..MaxProperties, t \in LatestTimes, scan \in ScanOrders :
         GetPropertyReadingSummary(p, t, scan)
    \/ \E p \in 1..MaxProperties, scan \in ScanOrders : GetLatestReadingsForProperty(p, scan)
    \/ \E p \in 1..MaxProperties, s \in LatestTimes, e \in LatestTimes, scan \in ScanOrders :
         \/ GetPropertyConsumptionV2(p, s, e, scan)
         \/ GetPropertyConsumption(p, s, e, scan)

SpecLatest == Init /\ [][NextLatest]_vars

(***************************************************************************)
(* C26: get_latest_readings_for_property returns the reading summary taken *)
(* at the greatest reading_timestamp among all readings of all meters of   *)
(* the property, and None when the property has no meters or no readings.  *)
(* main_meter and unmetered are None exactly when the main meter has no    *)
(* reading at that timestamp.  The summary is made of readings of that     *)
(* timestamp alone, so that a reading of an older timestamp does not       *)
(* change it.                                                              *)
(***************************************************************************)
IsLatestCall ==
    resp.op \in {"get_latest_readings_for_property", "get_latest_readings_for_property_v2"}

MetersOfProperty(p) == {m \in Ids(meters) : meters[m].property_id = p}

ReadingsOfProperty(p) == {r \in Ids(readings) : readings[r].meter_id \in MetersOfProperty(p)}

ReadingsOfMeterAt(m, t) == {r \in ReadingsOfMeter(m) : readings[r].reading_timestamp = t}

C26_LatestReadings ==
    IsLatestCall =>
        LET p == resp.property_id
        IN  IF MetersOfProperty(p) = {} \/ ReadingsOfProperty(p) = {}
            THEN resp.result = None
            ELSE /\ resp.result # None
                 /\ LET summary == resp.result[1]
                        t == summary.reading_timestamp
                    IN  /\ \A r \in ReadingsOfProperty(p) : readings[r].reading_timestamp <= t
                        /\ \E r \in ReadingsOfProperty(p) : readings[r].reading_timestamp = t
                        /\ summary.main_meter # None
                           <=> \E m \in MainMetersOf(p) : ReadingsOfMeterAt(m, t) # {}
                        /\ summary.main_meter # None
                           => \E m \in MainMetersOf(p) : \E r \in ReadingsOfMeterAt(m, t) :
                                  readings[r].value = summary.main_meter[1]
                        /\ summary.unmetered = None <=> summary.main_meter = None
                        /\ Len(summary.submeters) =
                               Cardinality({m \in SubmetersOf(p) : ReadingsOfMeterAt(m, t) # {}})
                        /\ \A k \in DOMAIN summary.submeters :
                               /\ summary.submeters[k].meter_id \in SubmetersOf(p)
                               /\ \E r \in ReadingsOfMeterAt(summary.submeters[k].meter_id, t) :
                                      readings[r].value = summary.submeters[k].value

\* the latest readings of a property whose main meter was read earlier but
\* not at the latest timestamp
C26_Witness ==
    /\ IsLatestCall
    /\ resp.result # None
    /\ resp.result[1].main_meter = None
    /\ resp.result[1].submeters # << >>
    /\ \E m \in MainMetersOf(resp.property_id) : \E r \in ReadingsOfMeter(m) :
           readings[r].reading_timestamp < resp.result[1].reading_timestamp

(***************************************************************************)
(* C25: with zero submeter values, unmetered equals the main meter value:  *)
(* a reading summary without submeter readings reports unmetered equal to  *)
(* main_meter, and a consumption summary whose submeters yield no          *)
(* consumption reports unmetered_consumption equal to                      *)
(* main_meter_consumption.                                                 *)
(***************************************************************************)
IsReadingSummary ==
    resp.op \in {"get_property_reading_summary", "get_property_reading_summary_v2"}

IsConsumptionSummary ==
    resp.op \in {"get_property_consumption", "get_property_consumption_v2"}

\* the entries of real submeters in a consumption summary
RealEntries(summary) ==
    {k \in DOMAIN summary.submeters :
       resp.op = "get_property_consumption_v2" => ~summary.submeters[k].is_virtual}

\* C25 as stated: for every present main value
C25_ZeroSubmeters ==
    /\ IsReadingSummary /\ resp.result.submeters = << >> /\ resp.result.main_meter # None
       => resp.result.unmetered = resp.result.main_meter
    /\ IsConsumptionSummary /\ RealEntries(resp.result) = {}
       => resp.result.unmetered_consumption = resp.result.main_meter_consumption

\* C25 as amended: with zero submeter values, unmetered is the main value
\* clamped at zero: equal to a main value that is not negative, 0 for a
\* negative one, None for an absent one.
Clamped(value) == IF value = None THEN None ELSE Some(Max(0, value[1]))

C25_ZeroSubmetersClamped ==
    /\ IsReadingSummary /\ resp.result.submeters = << >>
       => resp.result.unmetered = Clamped(resp.result.main_meter)
    /\ IsConsumptionSummary /\ RealEntries(resp.result) = {}
       => resp.result.unmetered_consumption = Clamped(resp.result.main_meter_consumption)

\* a consumption summary of a property without submeter consumption whose
\* main meter reads less at the end of the period than at its start
C25_Witness ==
    /\ IsConsumptionSummary
    /\ RealEntries(resp.result) = {}
    /\ resp.result.main_meter_consumption # None
    /\ resp.result.main_meter_consumption[1] < 0
    /\ resp.result.unmetered_consumption = Some(0)

(***************************************************************************)
(* Bulk submissions of readings through both services, for a property      *)
(* whose submeters may or may not exist.                                   *)
(***************************************************************************)
BulkMaxBulks == 2

BulkMaxTime == 1

BulkMaxValue == 1

BulkTimes == 0..BulkMaxTime

BulkValues == 0..BulkMaxValue

NextBulk ==
    \/ Return
    \/ create_property
    \/ \E p \in 1..MaxProperties, nm \in SubmeterNames : create_submeter(p, nm)
    \/ \E p \in 1..MaxProperties, t \in BulkTimes, v \in BulkValues,
          d \in DictsOver(SubmeterNameSeq, BulkValues), scan \in ScanOrders :
         create_bulk_readings(p, t, v, d, scan, BulkMaxBulks)
    \/ \E p \in 1..MaxProperties, t \in BulkTimes, v \in BulkValues,
          d \in DictsOver(SubmeterNameSeq, BulkValues), ty \in ReadingTypes,
          scan \in ScanOrders :
         create_bulk_readings_v2(p, t, v, d, ty, scan, BulkMaxBulks)

SpecBulk == Init /\ [][NextBulk]_vars

(***************************************************************************)
(* C27: create_bulk_readings is all-or-nothing: on success it stores       *)
(* exactly one reading for the main meter plus one per named submeter, all *)
(* with the batch's timestamp and reading type; when the property has no   *)
(* main meter or a submeter name does not resolve, it fails with 404 and   *)
(* none of the batch's readings is stored, also not those for names        *)
(* processed before the failing one.                                       *)
(***************************************************************************)
IsBulkResponse(r) == r.op \in {"create_bulk_readings", "create_bulk_readings_v2"}

MetersNamed(p, nm) ==
    {m \in Ids(meters) : meters[m].property_id = p /\ meters[m].name = Some(nm)}

C27_BulkAllOrNothing ==
    [][IsBulkResponse(resp') =>
         LET p == resp'.property_id
             items == resp'.submeter_readings
             new == SubSeq(readings', Len(readings) + 1, Len(readings'))
         IN  IF \/ MainMetersOf(p) = {}
                \/ \E k \in DOMAIN items : MetersNamed(p, items[k][1]) = {}
             THEN /\ resp'.status = 404
                  /\ readings' = readings
             ELSE /\ resp'.status = 201
                  /\ SubSeq(readings', 1, Len(readings)) = readings
                  /\ Len(new) = 1 + Len(items)
                  /\ new[1].meter_id \in MainMetersOf(p)
                  /\ \A k \in DOMAIN items :
                         /\ new[k + 1].meter_id \in MetersNamed(p, items[k][1])
                         /\ new[k + 1].value = items[k][2]
                  /\ \A k \in DOMAIN new :
                         /\ new[k].reading_timestamp = resp'.reading_timestamp
                         /\ new[k].reading_type = resp'.reading_type]_vars

\* a batch refused at its second name, after its first name resolved, in a
\* store that holds the readings of an earlier batch
C27_Witness ==
    /\ IsBulkResponse(resp)
    /\ resp.status = 404
    /\ readings # << >>
    /\ MainMetersOf(resp.property_id) # {}
    /\ Len(resp.submeter_readings) = 2
    /\ MetersNamed(resp.property_id, resp.submeter_readings[1][1]) # {}
    /\ MetersNamed(resp.property_id, resp.submeter_readings[2][1]) = {}

(***************************************************************************)
(* The v1 and v2 consumption summaries side by side, over stores filled by *)
(* bulk submissions of either reading type.                                *)
(***************************************************************************)
CompatMaxBulks == 2

CompatMaxTime == 1

CompatMaxValue == 1

CompatTimes == 0..CompatMaxTime

CompatValues == 0..CompatMaxValue

NextCompat ==
    \/ Return
    \/ create_property
    \/ \E p \in 1..MaxProperties, nm \in SubmeterNames : create_submeter(p, nm)
    \/ \E p \in 1..MaxProperties, t \in CompatTimes, v \in CompatValues,
          d \in DictsOver(SubmeterNameSeq, CompatValues), ty \in ReadingTypes,
          scan \in ScanOrders :
         create_bulk_readings_v2(p, t, v, d, ty, scan, CompatMaxBulks)
    \/ \E p \in 1..MaxProperties, s \in CompatTimes, e \in CompatTimes, scan \in ScanOrders :
         \/ GetPropertyConsumptionV2(p, s, e, scan)
         \/ GetPropertyConsumption(p, s, e, scan)

SpecCompat == Init /\ [][NextCompat]_vars

(***************************************************************************)
(* C28: for every store that holds only absolute readings with at most one *)
(* reading per (meter, timestamp), the v1 and v2 get_property_consumption  *)
(* return the same main_meter_consumption, the same per-submeter           *)
(* consumption for the same set of submeters, the same                     *)
(* total_submetered_consumption and the same unmetered_consumption, for    *)
(* every property and period.                                              *)
(***************************************************************************)
AbsoluteOnly == \A i \in Ids(readings) : readings[i].reading_type = ABSOLUTE

OneReadingPerMeterAndTime ==
    \A i, j \in Ids(readings) :
        (/\ readings[i].meter_id = readings[j].meter_id
         /\ readings[i].reading_timestamp = readings[j].reading_timestamp) => i = j

\* the per-submeter consumption of a v1 summary and of the real submeters of
\* a v2 summary, as sets: the order of the entries is the store's
PerSubmeterV1(summary) ==
    {[name |-> summary.submeters[k].name,
      meter_id |-> summary.submeters[k].meter_id,
      consumption |-> summary.submeters[k].consumption] : k \in DOMAIN summary.submeters}

PerSubmeterV2(summary) ==
    {[name |-> summary.submeters[k].name,
      meter_id |-> summary.submeters[k].meter_id,
      consumption |-> summary.submeters[k].consumption] :
        k \in {j \in DOMAIN summary.submeters : ~summary.submeters[j].is_virtual}}

SameConsumption(v1, v2) ==
    /\ v1.main_meter_consumption = v2.main_meter_consumption
    /\ PerSubmeterV1(v1) = PerSubmeterV2(v2)
    /\ v1.total_submetered_consumption = v2.total_submetered_consumption
    /\ v1.unmetered_consumption = v2.unmetered_consumption

C28_V2MatchesV1 ==
    (IsConsumptionSummary /\ AbsoluteOnly /\ OneReadingPerMeterAndTime) =>
        LET p == resp.result.property_id
            s == resp.result.start_timestamp
            e == resp.result.end_timestamp
        IN  \A scan \in ScanOrders :
                IF resp.op = "get_property_consumption"
                THEN SameConsumption(resp.result,
                                     get_property_consumption_v2(p, s, e, scan))
                ELSE SameConsumption(get_property_consumption(p, s, e, scan),
                                     resp.result)

\* a v2 summary of a period with a start and an end reading on the main meter
\* and on a submeter, with consumption on both
C28_Witness ==
    /\ resp.op = "get_property_consumption_v2"
    /\ AbsoluteOnly
    /\ OneReadingPerMeterAndTime
    /\ resp.result.start_timestamp < resp.result.end_timestamp
    /\ resp.result.main_meter_consumption = Some(1)
    /\ \E k \in DOMAIN resp.result.submeters :
           /\ ~resp.result.submeters[k].is_virtual
           /\ resp.result.submeters[k].consumption = 1

(***************************************************************************)
(* Proportional cost distribution at a rounding tie: consumptions whose    *)
(* ratio has no finite decimal expansion, and a total cost of which a      *)
(* submeter's exact part is half a cent.                                   *)
(***************************************************************************)
TieMaxBulks == 2

TieMaxTime == 1

TieCost == 3

TieTimes == 0..TieMaxTime

TieValues == {0, 1, 5}

NextTies ==
    \/ Return
    \/ create_property
    \/ \E p \in 1..MaxProperties, nm \in SubmeterNames : create_submeter(p, nm)
    \/ \E p \in 1..MaxProperties, t \in TieTimes, v \in TieValues,
          d \in DictsOver(SubmeterNameSeq, TieValues), scan \in ScanOrders :
         create_bulk_readings(p, t, v, d, scan, TieMaxBulks)
    \/ \E p \in 1..MaxProperties, s \in TieTimes, e \in TieTimes, scan \in ScanOrders :
         DistributeCosts(p, s, e, TieCost, scan)

SpecTies == Init /\ [][NextTies]_vars

RECURSIVE UnmeteredShareTotal(_, _)
UnmeteredShareTotal(shares, n) ==
    IF n = 0 THEN Decimal(0)
    ELSE DecimalAdd(UnmeteredShareTotal(shares, n - 1), shares[n].unmetered_share)

\* C29 (as claimed): in a proportional distribution with
\* total_submetered_consumption > 0 and unmetered consumption present, the
\* entries' unmetered_share values sum to unmetered_consumption, and every
\* entry's cost is total_cost * consumption / total_submetered_consumption
\* rounded to 2 decimals, whatever the size of the unmetered residual.
C29_CostByOwnConsumption ==
    (IsDistribution /\ resp.result.status = 200) =>
        LET shares == resp.result.submeters
            n == Len(shares)
            total == OwnTotal(shares, n)
        IN  (total > 0 /\ resp.result.unmetered_consumption # None) =>
               /\ UnmeteredShareTotal(shares, n)
                      = Decimal(resp.result.unmetered_consumption[1])
               /\ \A k \in 1..n :
                      shares[k].cost =
                          DecimalQuantize(
                              DecimalDiv(DecimalMul(Decimal(resp.result.total_cost),
                                                    Decimal(shares[k].consumption)),
                                         Decimal(total)))

(***************************************************************************)
(* Concurrent create_formula requests.  The API route is a plain function, *)
(* which the server runs in a thread pool, and get_db gives every request  *)
(* a session of its own: a request's duplicate-name query and its commit   *)
(* are two steps, between which another request can take its own.  While   *)
(* requests are in flight resp carries their sessions.                     *)
(***************************************************************************)
RaceMaxFormulas == 3

RaceTerms == {<<<<"x", c>>>> : c \in Coeffs}

\* a request handed to create_formula, before its first statement
Session(p, name, terms) ==
    [property_id |-> p, name |-> name, terms |-> terms, at |-> "query", status |-> 0]

InFlight == resp.op = "create_formula" /\ "sessions" \in DOMAIN resp

\* two requests arrive together
StartCreateFormula(p, name1, terms1, name2, terms2) ==
    /\ Idle
    /\ Len(formulas) + 2 <= RaceMaxFormulas
    /\ resp' = [op |-> "create_formula",
                sessions |-> <<Session(p, name1, terms1), Session(p, name2, terms2)>>]
    /\ UNCHANGED <<properties, meters, readings, formulas>>

\* billing.py 27-42: the duplicate-name query, against the committed rows
create_formula_query(i) ==
    /\ InFlight
    /\ resp.sessions[i].at = "query"
    /\ LET s == resp.sessions[i]
       IN  resp' = [resp EXCEPT !.sessions[i] =
                      IF ActiveNamed(s.property_id, s.name) # {}
                      THEN [s EXCEPT !.at = "done", !.status = 400]
                      ELSE [s EXCEPT !.at = "commit"]]
    /\ UNCHANGED <<properties, meters, readings, formulas>>

\* billing.py 44-53: the row is added and committed
create_formula_commit(i) ==
    /\ InFlight
    /\ resp.sessions[i].at = "commit"
    /\ LET s == resp.sessions[i]
       IN  /\ formulas' = Append(formulas, [property_id |-> s.property_id,
                                            name |-> s.name,
                                            terms_json |-> set_terms(s.terms),
                                            is_active |-> TRUE])
           /\ resp' = [resp EXCEPT !.sessions[i] = [s EXCEPT !.at = "done", !.status = 201]]
    /\ UNCHANGED <<properties, meters, readings>>

NextRace ==
    \/ Return
    \/ create_property
    \/ \E p \in 1..MaxProperties, name1 \in FormulaNames, terms1 \in RaceTerms,
          name2 \in FormulaNames, terms2 \in RaceTerms :
         StartCreateFormula(p, name1, terms1, name2, terms2)
    \/ \E i \in 1..2 : create_formula_query(i)
    \/ \E i \in 1..2 : create_formula_commit(i)
    \/ \E id \in 1..RaceMaxFormulas : delete_formula(id)

SpecRace == Init /\ [][NextRace]_vars

\* C30 (as claimed): two create_formula requests for the same property and
\* name that run concurrently cannot both succeed: under every interleaving
\* at most one of them stores an active formula with that name.
C30_AtMostOneSucceeds ==
    InFlight =>
        \A i, j \in DOMAIN resp.sessions :
            (/\ i # j
             /\ resp.sessions[i].property_id = resp.sessions[j].property_id
             /\ resp.sessions[i].name = resp.sessions[j].name)
            => ~(resp.sessions[i].status = 201 /\ resp.sessions[j].status = 201)
====
